---- MODULE Spec2Model ----
(***************************************************************************)
(* VibeFlow Studio: the canvas render pass (drawCanvas in src/App.tsx) and *)
(* the editing operations that feed it.                                    *)
(*                                                                         *)
(* Time is counted in tenths of a second: 1 = 0.1 s, so the 0.4 s stagger  *)
(* step is 4, the 10 s fallback duration is 100, and so on.  Opacities and *)
(* scales are fractions n/d, pixel coordinates count 1/PxUnit of a pixel.  *)
(***************************************************************************)
EXTENDS Integers, Sequences, FiniteSets, TLC

\* ------------------------------------------------------------------ bounds
\* The largest playback time the audio plays to (3.2 s).
MaxTime == 32
\* The playlist specification seeks in half-second steps, up to this many.
MaxLoopSteps == 6
\* The longest background playlist.
MaxBg == 2
\* The text specifications seek in steps of 0.2 s, up to this many (6.4 s).
MaxTextSteps == 32
\* The longest lyric list.
MaxLines == 3
\* The lyric specification seeks to every 0.1 s up to this time (1.2 s).
MaxLyricTime == 12
\* Recordings started in one run.
MaxRecordings == 2
\* The longest list sent for translation.
MaxSourceLines == 2
\* The line objects the lyric editor makes in one run.
MaxLineObjects == 4
\* Lines of an uploaded .lrc file.
MaxLrcLines == 3
\* Items of a playlist that holds copies.
MaxPlaylist == 3
\* Projects that are saved in the database.
MaxProjects == 2
\* Backgrounds that a saved project lists.
MaxSavedBackgrounds == 2

\* ------------------------------------------------------- program constants
\* duration = 10 when a video's intrinsic duration is unknown.
FallbackDuration == 100
\* Default 5 s for uploaded images.
ImageDefaultDuration == 50
\* sourceDuration falls back to 1 s.
UnknownSourceDuration == 10
\* The pointer is re-seeked when it is more than 0.3 s off.
DriftTolerance == 3

Min(a, b) == IF a < b THEN a ELSE b
Max(a, b) == IF a > b THEN a ELSE b
Abs(a) == IF a < 0 THEN -a ELSE a

VARIABLES
    backgrounds,     \* useState<BackgroundMedia[]>: the playlist, in order
    videoElements,   \* videoElementsRef: src -> hidden <video> element
    lrcLines,        \* useState<LrcLine[]>
    lyricStyle,      \* useState<LyricStyle>
    titleStyle,      \* useState<LyricStyle> for the title sequence
    titleConfig,     \* useState<TitleConfig>
    currentTime,     \* useState<number>: the playback time the frame is drawn at
    isPlaying,       \* useState<boolean>
    audio,           \* the hidden <audio> element: src set, paused, ended, position
    recorder,        \* isRecording, the MediaRecorder, chunksRef, the files saved
    editor,          \* LyricEditor: its lines, isTranslating, the request in flight
    transition,      \* the global transition settings: effect and duration
    frame,           \* what the last drawCanvas() call put on the canvas
    scene,           \* the background draws the compositor made for that frame
    lrcContent,      \* the text of the .lrc file handleLrcUpload was last given
    db,              \* IndexedDB: the projects store and the assets store
    dbCalls,         \* the calls of utils/db.ts that are in progress
    memo             \* observer: one earlier render pass, inputs and output

vars == <<backgrounds, videoElements, lrcLines, lyricStyle, titleStyle,
          titleConfig, currentTime, isPlaying, audio, recorder, editor, transition,
          frame,
          scene, memo, lrcContent, db, dbCalls>>

\* ------------------------------------------------------ media durations
\* HTMLMediaElement.duration: NaN before the metadata is read, Infinity for
\* a stream without a length, otherwise a number of tenths of a second.
NaNDuration == [k |-> "nan", v |-> 0]
InfiniteDuration == [k |-> "inf", v |-> 0]
Num(n) == [k |-> "num", v |-> n]

\* Variant: any number counts as a known length, 0 included.
IntrinsicKnownIfNumber(d) == d.k = "num"

\* v.duration && !isNaN(v.duration) && v.duration !== Infinity
IntrinsicKnown(d) == d.k = "num" /\ d.v # 0

\* Variant: the automatic duration applied to images as well.
EffectiveDurationAnyType(bg, vids) ==
    IF bg.duration = 0
    THEN IF bg.src \in DOMAIN vids /\ IntrinsicKnown(vids[bg.src].duration)
         THEN vids[bg.src].duration.v
         ELSE FallbackDuration
    ELSE bg.duration

\* The duration drawCanvas gives one playlist item.
EffectiveDuration(bg, vids) ==
    IF bg.type = "video" /\ bg.duration = 0
    THEN IF bg.src \in DOMAIN vids /\ IntrinsicKnown(vids[bg.src].duration)
         THEN vids[bg.src].duration.v
         ELSE FallbackDuration
    ELSE bg.duration

\* totalCycleDuration after the first n items have been mapped.
RECURSIVE CycleDurationUpTo(_, _, _)
CycleDurationUpTo(bgs, vids, n) ==
    IF n = 0 THEN 0
    ELSE CycleDurationUpTo(bgs, vids, n - 1) + EffectiveDuration(bgs[n], vids)

\* backgrounds.map(bg => ({...bg, start, end, effectiveDuration}))
Playlist(bgs, vids) ==
    [i \in 1..Len(bgs) |->
        [item |-> bgs[i],
         start |-> CycleDurationUpTo(bgs, vids, i - 1),
         end |-> CycleDurationUpTo(bgs, vids, i),
         effectiveDuration |-> EffectiveDuration(bgs[i], vids)]]

TotalCycleDuration(bgs, vids) == CycleDurationUpTo(bgs, vids, Len(bgs))

\* Variant: the playlist runs once and stays on its last moment.
LoopTimeNoWrap(t, total) == IF t < total THEN t ELSE total - 1

\* currentTime % totalCycleDuration, for currentTime >= 0 and a total > 0.
LoopTime(t, total) == t % total

\* Variant: a segment closed at its end.
InSegmentClosed(seg, loopTime) == loopTime >= seg.start /\ loopTime <= seg.end

\* loopTime >= item.start && loopTime < item.end
InSegment(seg, loopTime) == loopTime >= seg.start /\ loopTime < seg.end

\* playlist.find(...) || playlist[0], as an index into the playlist.
CurrentBgIndex(playlist, loopTime) ==
    IF \E i \in DOMAIN playlist : InSegment(playlist[i], loopTime)
    THEN CHOOSE i \in DOMAIN playlist :
            /\ InSegment(playlist[i], loopTime)
            /\ \A j \in DOMAIN playlist : InSegment(playlist[j], loopTime) => i <= j
    ELSE 1

\* --------------------------------------------------- the background layer
\* (v.duration && v.duration !== Infinity) ? v.duration : 1
SourceDuration(d) == IF d.k = "num" /\ d.v # 0 THEN d.v ELSE UnknownSourceDuration

\* localTime % sourceDuration
VideoPointer(localTime, d) == localTime % SourceDuration(d)

\* Variant: the pointer is set whenever it is off the target.
NeedsSeekOnAnyDrift(pointer, target) == pointer # target

\* Math.abs(v.currentTime - videoPointer) > 0.3
NeedsSeek(pointer, target) == Abs(pointer - target) > DriftTolerance

\* What drawCanvas does to the current segment's <video>: re-seek on
\* drift, then follow isPlaying with play() / pause().
SyncVideo(v, target, playing) ==
    [v EXCEPT !.currentTime = IF NeedsSeek(@, target) THEN target ELSE @,
              !.paused = IF playing /\ @ THEN FALSE
                         ELSE IF ~playing /\ ~@ THEN TRUE ELSE @]

NoBackground == [idx |-> 0, loopTime |-> 0, localTime |-> 0, drawn |-> FALSE]

\* Variant: a playlist without length falls back to its first item.
BackgroundLayerFirstItem(bgs, vids, t, imgReady) ==
    IF Len(bgs) > 0
    THEN LET pl == Playlist(bgs, vids)
             total == TotalCycleDuration(bgs, vids)
             lt == IF total > 0 THEN LoopTime(t, total) ELSE 0
             i == CurrentBgIndex(pl, lt)
             cur == pl[i]
         IN  IF cur.item.type = "image"
             THEN [idx |-> i, loopTime |-> lt, localTime |-> 0, drawn |-> imgReady]
             ELSE IF cur.item.src \in DOMAIN vids
                  THEN [idx |-> i, loopTime |-> lt, localTime |-> lt - cur.start,
                        drawn |-> vids[cur.item.src].videoWidth # 0]
                  ELSE [idx |-> i, loopTime |-> lt, localTime |-> 0, drawn |-> FALSE]
    ELSE NoBackground

\* Variant: drawScaledMedia without its early returns, drawing whatever
\* the media reports.
BackgroundLayerUnchecked(bgs, vids, t, imgReady) ==
    IF Len(bgs) > 0 /\ TotalCycleDuration(bgs, vids) > 0
    THEN LET pl == Playlist(bgs, vids)
             lt == LoopTime(t, TotalCycleDuration(bgs, vids))
             i == CurrentBgIndex(pl, lt)
             cur == pl[i]
         IN  IF cur.item.type = "image"
             THEN [idx |-> i, loopTime |-> lt, localTime |-> 0, drawn |-> TRUE]
             ELSE IF cur.item.src \in DOMAIN vids
                  THEN [idx |-> i, loopTime |-> lt, localTime |-> lt - cur.start,
                        drawn |-> TRUE]
                  ELSE [idx |-> i, loopTime |-> lt, localTime |-> 0, drawn |-> FALSE]
    ELSE NoBackground

\* Step 2 of drawCanvas: the segment chosen for time t (idx = 0: nothing is
\* chosen and the black fill stays), the local time computed for a video
\* segment, and whether drawScaledMedia drew (it returns early when the
\* media reports zero width).  imgReady: whether the Image created for this
\* frame has loaded by the time it is drawn.
BackgroundLayer(bgs, vids, t, imgReady) ==
    IF Len(bgs) > 0 /\ TotalCycleDuration(bgs, vids) > 0
    THEN LET pl == Playlist(bgs, vids)
             lt == LoopTime(t, TotalCycleDuration(bgs, vids))
             i == CurrentBgIndex(pl, lt)
             cur == pl[i]
         IN  IF cur.item.type = "image"
             THEN [idx |-> i, loopTime |-> lt, localTime |-> 0, drawn |-> imgReady]
             ELSE IF cur.item.src \in DOMAIN vids
                  THEN [idx |-> i, loopTime |-> lt, localTime |-> lt - cur.start,
                        drawn |-> vids[cur.item.src].videoWidth # 0]
                  ELSE [idx |-> i, loopTime |-> lt, localTime |-> 0, drawn |-> FALSE]
    ELSE NoBackground

\* The video cache after the same step: only the current segment's element
\* is touched.
VideosAfterDraw(bgs, vids, t, playing) ==
    IF Len(bgs) > 0 /\ TotalCycleDuration(bgs, vids) > 0
    THEN LET pl == Playlist(bgs, vids)
             lt == LoopTime(t, TotalCycleDuration(bgs, vids))
             cur == pl[CurrentBgIndex(pl, lt)]
         IN  IF cur.item.type = "video" /\ cur.item.src \in DOMAIN vids
             THEN [vids EXCEPT ![cur.item.src] =
                      SyncVideo(@, VideoPointer(lt - cur.start, @.duration), playing)]
             ELSE vids
    ELSE vids

\* ------------------------------------------------------------ the canvas
\* getResolution('16:9'): the default 1080p landscape canvas.
CanvasWidth == 1920
CanvasHeight == 1080
\* Pixel coordinates are counted in 1/PxUnit px.
PxUnit == 1000

\* A number n/d (d > 0), as the code leaves it: not reduced.
Frac(n, d) == [n |-> n, d |-> d]
One == Frac(1, 1)
Zero == Frac(0, 1)

\* ------------------------------- the scheduler and the transition compositor
\* enum TransitionEffect
TransitionEffects == {"none", "crossfade", "flash_black", "zoom_out", "shake"}

\* The successor of segment i of n: the last item is followed by the first.
NextIndex(i, n) == (i % n) + 1

\* timeRemainingInCurrent = end_i - loopTime
TimeRemainingInCurrent(seg, loopTime) == seg.end - loopTime

NoSegments == [current |-> 0, next |-> 0, timeRemaining |-> 0]

\* resolveActiveSegments(items, currentTime): the current segment chosen as
\* drawCanvas chooses it, its successor, and the time left in it
\* (current = 0: nothing to draw).
ResolveActiveSegments(bgs, vids, t) ==
    IF Len(bgs) > 0 /\ TotalCycleDuration(bgs, vids) > 0
    THEN LET pl == Playlist(bgs, vids)
             lt == LoopTime(t, TotalCycleDuration(bgs, vids))
             i == CurrentBgIndex(pl, lt)
         IN  [current |-> i, next |-> NextIndex(i, Len(pl)),
              timeRemaining |-> TimeRemainingInCurrent(pl[i], lt)]
    ELSE NoSegments

\* The transition window: the last transitionDuration of a segment, when
\* there is a distinct successor and an effect to blend it with.
TransitionActive(timeRemaining, n, trans) ==
    timeRemaining <= trans.duration /\ n > 1 /\ trans.effect # "none"

\* progress = 1 - timeRemaining / transitionDuration, clamped to [0, 1]
TransitionProgress(timeRemaining, duration) ==
    Frac(Max(0, Min(duration, duration - timeRemaining)), duration)

\* One background draw: which segment, how opaque, how much enlarged, the
\* blend mode, and the shake envelope (sin(progress * pi), kept as the
\* progress it is taken at; <<>> for no shake).
BgDraw(segment, opacity, scale, blend, shakeAt) ==
    [segment |-> segment, opacity |-> opacity, scale |-> scale,
     blend |-> blend, shakeAt |-> shakeAt]

OpaqueDraw(segment) == BgDraw(segment, One, One, "source-over", <<>>)

\* compositeBackground(current, next, timeRemaining, transitionDuration,
\* effect): the 0..2 background draws of a frame, bottom first.
CompositeBackground(res, n, trans) ==
    IF res.current = 0 THEN <<>>
    ELSE IF ~TransitionActive(res.timeRemaining, n, trans)
    THEN <<OpaqueDraw(res.current)>>
    ELSE LET p == TransitionProgress(res.timeRemaining, trans.duration)
         IN  CASE trans.effect = "crossfade" ->
                    <<OpaqueDraw(res.current),
                      BgDraw(res.next, p, One, "source-over", <<>>)>>
               [] trans.effect = "flash_black" ->
                    IF 2 * p.n < p.d
                    THEN <<BgDraw(res.current, Frac(p.d - 2 * p.n, p.d), One,
                                  "source-over", <<>>)>>
                    ELSE <<BgDraw(res.next, Frac(2 * p.n - p.d, p.d), One,
                                  "source-over", <<>>)>>
               [] trans.effect = "zoom_out" ->
                    <<BgDraw(res.current, Frac(p.d - p.n, p.d),
                             Frac(5 * p.d + p.n, 5 * p.d), "source-over", <<>>),
                      BgDraw(res.next, p, One, "source-over", <<>>)>>
               [] OTHER ->
                    <<BgDraw(res.current, One, One, "source-over", <<p>>),
                      BgDraw(res.next, One, One, "lighter", <<p>>)>>

\* The background of one frame: what the scheduler resolved, whether the
\* transition window is open, and the draws.
Scene(bgs, vids, trans, t) ==
    LET res == ResolveActiveSegments(bgs, vids, t)
    IN  [current |-> res.current, next |-> res.next,
         timeRemaining |-> res.timeRemaining,
         active |-> res.current # 0
                    /\ TransitionActive(res.timeRemaining, Len(bgs), trans),
         layers |-> CompositeBackground(res, Len(bgs), trans)]

\* ------------------------------------------------------ the dim overlay
\* Variant: the title stage lasts through the moment t = duration.
IsTitleActiveThroughEnd(cfg, t) == cfg.enabled /\ t <= cfg.duration

\* const isTitleActive = titleConfig.enabled && currentTime < titleConfig.duration
IsTitleActive(cfg, t) == cfg.enabled /\ t < cfg.duration

\* Variant: the overlay always takes the lyric style's opacity.
OverlayOpacityOfLyrics(cfg, tStyle, lStyle, t) == lStyle.bgOverlayOpacity

\* drawOverlay(opacity): the fill is skipped when opacity is 0.
\* bgOverlayOpacity is counted in tenths.
OverlayOpacity(cfg, tStyle, lStyle, t) ==
    IF IsTitleActive(cfg, t) THEN tStyle.bgOverlayOpacity ELSE lStyle.bgOverlayOpacity

\* ------------------------------------------------- title / credit sequence
\* const staggerStep = 0.4
StaggerStep == 4
\* staggerTimer += 0.2 for the technical credits
CreditStep == 2
\* const exitDuration = 1.0
ExitDuration == 10
\* const entryDuration = 1.0 (title elements)
TitleEntryDuration == 10
\* const typeDuration = 1.5 (title typewriter)
TitleTypeDuration == 15

\* Text is a sequence of characters.
LyricsLabel == <<"L", "y", "r", "i", "c", "s", ":", " ">>
MusicLabel == <<"M", "u", "s", "i", "c", ":", " ">>
ProdLabel == <<"P", "r", "o", "d", ":", " ">>

\* One elements.push(...) followed by staggerTimer += step, when the field
\* is not empty.  st = <<elements, staggerTimer>>.
PushElement(st, text, label, type, mult, step) ==
    IF text = <<>> THEN st
    ELSE <<Append(st[1], [text |-> label \o text, type |-> type,
                          delay |-> st[2], fontSizeMult |-> mult]),
           st[2] + step>>

\* Variant: one stagger step for every element, credits included.
TitleElementsUniformStep(cfg) ==
    LET s1 == PushElement(<<<<>>, 0>>, cfg.title, <<>>, "title", 10, StaggerStep)
        s2 == PushElement(s1, cfg.subtitle, <<>>, "subtitle", 6, StaggerStep)
        s3 == PushElement(s2, cfg.artist, <<>>, "credit", 5, StaggerStep)
        s4 == PushElement(s3, cfg.author, LyricsLabel, "credit", 4, StaggerStep)
        s5 == PushElement(s4, cfg.composer, MusicLabel, "credit", 4, StaggerStep)
        s6 == PushElement(s5, cfg.producer, ProdLabel, "credit", 4, StaggerStep)
    IN  s6[1]

\* The element list of one frame; fontSizeMult is counted in tenths.
TitleElements(cfg) ==
    LET s1 == PushElement(<<<<>>, 0>>, cfg.title, <<>>, "title", 10, StaggerStep)
        s2 == PushElement(s1, cfg.subtitle, <<>>, "subtitle", 6, StaggerStep)
        s3 == PushElement(s2, cfg.artist, <<>>, "credit", 5, StaggerStep)
        s4 == PushElement(s3, cfg.author, LyricsLabel, "credit", 4, CreditStep)
        s5 == PushElement(s4, cfg.composer, MusicLabel, "credit", 4, CreditStep)
        s6 == PushElement(s5, cfg.producer, ProdLabel, "credit", 4, CreditStep)
    IN  s6[1]

\* Variant: the exit fade takes the last half second only.
GlobalExitAlphaLate(cfg, t) ==
    LET timeRemaining == cfg.duration - t
    IN  IF timeRemaining < 5
        THEN Frac(Max(0, timeRemaining), 5)
        ELSE One

\* globalExitAlpha: 1 until the last second, then
\* Math.max(0, timeRemaining / exitDuration).
GlobalExitAlpha(cfg, t) ==
    LET timeRemaining == cfg.duration - t
    IN  IF timeRemaining < ExitDuration
        THEN Frac(Max(0, timeRemaining), ExitDuration)
        ELSE One

\* 1 - (1 - progress)^3 with progress = min(1, elapsed / entryDuration).
EaseOutCubic(elapsed, entryDuration) ==
    LET e == Min(elapsed, entryDuration)
        r == entryDuration - e
    IN  Frac(entryDuration * entryDuration * entryDuration - r * r * r,
             entryDuration * entryDuration * entryDuration)

\* a * b for two numbers.
Times(a, b) == Frac(a.n * b.n, a.d * b.d)

\* Variant: the character count rounded up instead of down.
VisibleCharsRoundedUp(charCount, elapsed, typeDuration) ==
    IF elapsed >= typeDuration THEN charCount
    ELSE (charCount * elapsed + typeDuration - 1) \div typeDuration

\* Math.floor(charCount * Math.min(1, elapsed / typeDuration))
VisibleChars(charCount, elapsed, typeDuration) ==
    IF elapsed >= typeDuration THEN charCount
    ELSE (charCount * elapsed) \div typeDuration

\* titleStyle.fontSize * e.fontSizeMult * 1.5, summed over elements 1..n,
\* in 1/PxUnit px.
RECURSIVE BlockExtent(_, _, _)
BlockExtent(elements, fontSize, n) ==
    IF n = 0 THEN 0
    ELSE BlockExtent(elements, fontSize, n - 1)
         + fontSize * elements[n].fontSizeMult * 150

\* The (x, y) of element number index (1-based) before the entry effect.
TitlePosition(elements, index, cfg, style) ==
    LET el == elements[index]
        cx == CanvasWidth * style.positionX * 10
        cy == CanvasHeight * style.positionY * 10
        total == BlockExtent(elements, style.fontSize, Len(elements))
        half == style.fontSize * el.fontSizeMult * 50
        fontPx == style.fontSize * el.fontSizeMult * 100
    IN  CASE cfg.layoutMode = "centered" ->
               [x |-> cx,
                y |-> cy - (total \div 2)
                      + BlockExtent(elements, style.fontSize, index - 1) + half]
          [] cfg.layoutMode = "vertical_right" ->
               [x |-> cx + (total \div 2)
                      - BlockExtent(elements, style.fontSize, index - 1) - half,
                y |-> cy - style.fontSize * el.fontSizeMult * Len(el.text) * 55]
          [] OTHER ->
               [x |-> cx,
                y |-> IF el.type = "title" THEN cy - 40 * PxUnit
                      ELSE IF el.type = "subtitle" THEN cy + fontPx
                      ELSE CanvasHeight * 850 + (index - 3) * (fontPx \div 2) * 3]

\* 1 - a
OneMinus(a) == Frac(a.d - a.n, a.d)

\* a * px pixels, in 1/PxUnit px.
ScalePx(a, px) == (a.n * px * PxUnit) \div a.d

\* One drawTextWithEffects(...) call as the frame records it.  clip is <<>>,
\* or <<[left, width]>> when the draw is clipped to the karaoke rectangle
\* [left, left + width]; pulseAt is <<>>,
\* or <<t>> when scale and glow follow the pulse (sin(3t) + 1) / 2.
Draw(text, x, y, fontSize, color, alpha, scale, blur, vertical, clip, pulseAt) ==
    [text |-> text, x |-> x, y |-> y, fontSize |-> fontSize, color |-> color,
     alpha |-> alpha, scale |-> scale, blur |-> blur, vertical |-> vertical,
     clip |-> clip, pulseAt |-> pulseAt]

\* The draw of one title element that has entered (elLocalTime >= 0).
TitleDraw(elements, index, cfg, style, t) ==
    LET el == elements[index]
        elLocalTime == t - el.delay
        ease == EaseOutCubic(elLocalTime, TitleEntryDuration)
        exit == GlobalExitAlpha(cfg, t)
        pos == TitlePosition(elements, index, cfg, style)
        fontPx == style.fontSize * el.fontSizeMult * 100
        vertical == cfg.layoutMode = "vertical_right"
        \* (1 - ease) * 50 and (1 - ease) * 30
        slideY == ScalePx(OneMinus(ease), 50)
        slideX == ScalePx(OneMinus(ease), 30)
    IN  CASE style.animationEffect = "fade_up" ->
               Draw(el.text,
                    IF vertical THEN pos.x + slideX ELSE pos.x,
                    IF vertical THEN pos.y ELSE pos.y + slideY,
                    fontPx, style.activeColor, Times(exit, ease), One, Zero,
                    vertical, <<>>, <<>>)
          [] style.animationEffect = "typewriter" ->
               Draw(SubSeq(el.text, 1,
                           VisibleChars(Len(el.text), elLocalTime, TitleTypeDuration)),
                    pos.x, pos.y, fontPx, style.activeColor, exit, One, Zero,
                    vertical, <<>>, <<>>)
          [] style.animationEffect = "scatter" ->
               Draw(el.text, pos.x, pos.y, fontPx, style.activeColor,
                    Times(exit, ease), Frac(ease.d + ease.n, 2 * ease.d), Zero,
                    vertical, <<>>, <<>>)
          [] OTHER ->
               Draw(el.text, pos.x, pos.y, fontPx, style.activeColor,
                    Times(exit, ease), One, Zero, vertical, <<>>, <<>>)

\* Variant: an element enters only after its delay has passed.
RECURSIVE TitleDrawsAfterDelay(_, _, _, _, _)
TitleDrawsAfterDelay(elements, n, cfg, style, t) ==
    IF n = 0 THEN <<>>
    ELSE LET before == TitleDrawsAfterDelay(elements, n - 1, cfg, style, t)
         IN  IF t - elements[n].delay <= 0 THEN before
             ELSE Append(before, TitleDraw(elements, n, cfg, style, t))

\* elements.forEach: the draws of the elements whose delay has passed, in
\* list order.
RECURSIVE TitleDrawsUpTo(_, _, _, _, _)
TitleDrawsUpTo(elements, n, cfg, style, t) ==
    IF n = 0 THEN <<>>
    ELSE LET before == TitleDrawsUpTo(elements, n - 1, cfg, style, t)
         IN  IF t - elements[n].delay < 0 THEN before
             ELSE Append(before, TitleDraw(elements, n, cfg, style, t))

TitleLayer(cfg, style, t) ==
    LET elements == TitleElements(cfg)
    IN  TitleDrawsUpTo(elements, Len(elements), cfg, style, t)

\* ------------------------------------------------------------ lyric layer
\* lookahead for the last line: line.time + 5
LastLineDuration == 50
\* const entryDuration = 0.5 (lyric fade-up)
LyricEntryDuration == 5

\* Variant: a line stays active through the moment its successor starts.
IsActiveThroughNext(lines, i, t) ==
    IF i = Len(lines) THEN t >= lines[i].time
    ELSE t >= lines[i].time /\ t <= lines[i + 1].time

\* Variant: a line becomes active only after its timestamp.
IsActiveAfterStart(lines, i, t) ==
    IF i = Len(lines) THEN t > lines[i].time
    ELSE t > lines[i].time /\ t < lines[i + 1].time

\* lrcLines.findIndex(...): the first line i (1-based) that has started and
\* whose successor has not; 0 stands for -1.
IsActiveAt(lines, i, t) ==
    IF i = Len(lines) THEN t >= lines[i].time
    ELSE t >= lines[i].time /\ t < lines[i + 1].time

ActiveIndex(lines, t) ==
    IF \E i \in 1..Len(lines) : IsActiveAt(lines, i, t)
    THEN CHOOSE i \in 1..Len(lines) :
            /\ IsActiveAt(lines, i, t)
            /\ \A j \in 1..Len(lines) : IsActiveAt(lines, j, t) => i <= j
    ELSE 0

\* Variant: without the lookahead, a last line ends where it starts.
SegmentDurationNoLookahead(lines, i) ==
    IF i < Len(lines) THEN lines[i + 1].time - lines[i].time ELSE 0

\* lrcLines[activeIndex + 1]?.time || (line.time + 5), minus line.time
SegmentDuration(lines, i) ==
    IF i < Len(lines) /\ lines[i + 1].time # 0
    THEN lines[i + 1].time - lines[i].time
    ELSE LastLineDuration

\* Variant: the progress of a line without the clamp to [0, 1].
LineProgressUnclamped(lines, i, t) ==
    Frac(t - lines[i].time, SegmentDuration(lines, i))

\* Math.max(0, Math.min(1, (currentTime - line.time) / duration))
LineProgress(lines, i, t) ==
    LET dur == SegmentDuration(lines, i)
        dt == t - lines[i].time
    IN  Frac(Max(0, Min(dt, dur)), dur)

\* ctx.measureText(text).width at the given font size: what the font gives
\* is outside the source; six tenths of the font size per character here.
MeasureText(text, fontPx) == Len(text) * ((fontPx * 6) \div 10)

\* ctx.rect(startX, ..., clipWidth, ...): the horizontal extent of the
\* karaoke clip, startX = x - textWidth / 2, clipWidth = textWidth * progress.
KaraokeClip(text, x, fontPx, progress) ==
    LET textWidth == MeasureText(text, fontPx)
    IN  [left |-> x - textWidth \div 2,
         width |-> Frac(textWidth * progress.n, progress.d)]

\* The draws of the active line under the selected effect.
ActiveLineDraws(lines, i, style, t) ==
    LET line == lines[i]
        dur == SegmentDuration(lines, i)
        dt == t - line.time
        progress == LineProgress(lines, i, t)
        x == CanvasWidth * style.positionX * 10
        baseY == CanvasHeight * style.positionY * 10
        size == style.fontSize * PxUnit
        plain == Draw(line.text, x, baseY, size, style.activeColor, One, One,
                      Zero, FALSE, <<>>, <<>>)
    IN  CASE style.animationEffect = "fade_up" ->
               LET ease == EaseOutCubic(dt, LyricEntryDuration)
               IN  <<[plain EXCEPT !.y = baseY + ScalePx(OneMinus(ease), 30),
                                   !.alpha = ease]>>
          [] style.animationEffect = "typewriter" ->
               <<[plain EXCEPT !.text =
                     SubSeq(line.text, 1,
                            VisibleChars(Len(line.text), dt * 10, Min(dur * 8, 200)))]>>
          [] style.animationEffect = "karaoke" ->
               <<[plain EXCEPT !.color = style.fontColor],
                 [plain EXCEPT !.clip = <<KaraokeClip(line.text, x, size, progress)>>]>>
          [] style.animationEffect = "breathing" ->
               <<[plain EXCEPT !.pulseAt = <<t>>]>>
          [] style.animationEffect = "scatter" ->
               IF progress.n * 10 < progress.d * 8 THEN <<plain>>
               ELSE <<[plain EXCEPT
                         !.scale = Frac(10 * progress.n - 7 * progress.d, progress.d),
                         !.alpha = Frac(5 * progress.d - 5 * progress.n, progress.d),
                         !.blur = Frac(50 * progress.n - 40 * progress.d, progress.d)]>>
          [] OTHER -> <<plain>>

\* A neighbouring or intro line: smaller, in the inactive colour.
SideDraw(text, style, sizeMille, yShift) ==
    Draw(text, CanvasWidth * style.positionX * 10,
         CanvasHeight * style.positionY * 10 + yShift,
         style.fontSize * sizeMille, style.fontColor, One, One, Zero, FALSE,
         <<>>, <<>>)

Ellipsis == <<".", ".", ".">>

\* Step 5 of drawCanvas, for a non-empty line list.
LyricLayer(lines, style, t) ==
    LET i == ActiveIndex(lines, t)
        gap == style.fontSize * 1500
    IN  IF i # 0
        THEN ActiveLineDraws(lines, i, style, t)
             \o (IF i + 1 <= Len(lines)
                 THEN <<SideDraw(lines[i + 1].text, style, 700, gap)>> ELSE <<>>)
             \o (IF i - 1 >= 1
                 THEN <<SideDraw(lines[i - 1].text, style, 700, -gap)>> ELSE <<>>)
        ELSE IF Len(lines) > 0 /\ t < lines[1].time
             THEN <<SideDraw(lines[1].text, style, 800, gap),
                    SideDraw(Ellipsis, style, 1000, 0)>>
             ELSE <<>>

\* ------------------------------------------- what a pass leaves of its inputs
\* Variant: the typewriter cuts titleConfig.title itself instead of the
\* text of the element made from it.
InputsWrittenBack(bgs, lines, lStyle, tStyle, cfg, t) ==
    [backgrounds |-> bgs, lrcLines |-> lines, lyricStyle |-> lStyle,
     titleStyle |-> tStyle,
     titleConfig |->
        IF IsTitleActive(cfg, t) /\ tStyle.animationEffect = "typewriter"
        THEN [cfg EXCEPT !.title =
                 SubSeq(@, 1, VisibleChars(Len(@), t, TitleTypeDuration))]
        ELSE cfg]

\* The objects drawCanvas was given, as they are when it returns.  The pass
\* assigns to el.text of the elements it has just pushed (new objects; the
\* strings of titleConfig are not changed by substring) and to glowBlur of
\* styleCopy = {...lyricStyle}; playlist entries are spread copies of the
\* background items.  None of the five is written.
InputsAfterDraw(bgs, lines, lStyle, tStyle, cfg, t) ==
    [backgrounds |-> bgs, lrcLines |-> lines, lyricStyle |-> lStyle,
     titleStyle |-> tStyle, titleConfig |-> cfg]

\* ------------------------------------------------------- one render pass
\* What drawCanvas computes and puts on the canvas at time t: the playlist it
\* builds, the background segment, the dim overlay, and the text draws of
\* the one active stage (with the title element list or the active lyric
\* index, 0 for none, that they were built from).
RenderFrame(bgs, vids, lines, lStyle, tStyle, cfg, t, imgReady) ==
    [time |-> t,
     inputs |-> InputsAfterDraw(bgs, lines, lStyle, tStyle, cfg, t),
     playlist |-> IF Len(bgs) > 0 THEN Playlist(bgs, vids) ELSE <<>>,
     bg |-> BackgroundLayer(bgs, vids, t, imgReady),
     overlay |-> OverlayOpacity(cfg, tStyle, lStyle, t),
     stage |-> IF IsTitleActive(cfg, t) THEN "title"
               ELSE IF Len(lines) > 0 THEN "lyric" ELSE "none",
     elements |-> IF IsTitleActive(cfg, t) THEN TitleElements(cfg) ELSE <<>>,
     activeIndex |-> IF ~IsTitleActive(cfg, t) /\ Len(lines) > 0
                     THEN ActiveIndex(lines, t) ELSE 0,
     draws |-> IF IsTitleActive(cfg, t) THEN TitleLayer(cfg, tStyle, t)
               ELSE IF Len(lines) > 0 THEN LyricLayer(lines, lStyle, t)
               ELSE <<>>]

\* ------------------------------------------------------------ input sets
\* Number(e.target.value) of the "Dur:" field of a playlist row.
DurationInputs == {-10, 0, 10}
\* What a video file's metadata can report as its length.
IntrinsicDurations == {Num(20), InfiniteDuration}
FileKinds == {"image", "video"}
\* The FileList of one upload: one or two files.
FileLists == {<<k>> : k \in FileKinds} \cup {<<k1, k2>> : k1, k2 \in FileKinds}
LyricEffects == {"none", "fade_up", "typewriter", "karaoke", "breathing", "scatter"}
LayoutModes == {"centered", "vertical_right", "cinematic"}

\* ------------------------------------------------------- initial values
DEFAULT_LYRIC_STYLE ==
    [fontSize |-> 50, fontColor |-> "#ffffff80", activeColor |-> "#ffffff",
     positionY |-> 80, positionX |-> 50, bgOverlayOpacity |-> 3,
     glowBlur |-> 0, animationEffect |-> "none"]

DEFAULT_TITLE_STYLE ==
    [fontSize |-> 80, fontColor |-> "#ffffff", activeColor |-> "#ffffff",
     positionY |-> 50, positionX |-> 50, bgOverlayOpacity |-> 4,
     glowBlur |-> 0, animationEffect |-> "fade_up"]

DEFAULT_TITLE_CONFIG ==
    [enabled |-> TRUE, layoutMode |-> "centered", duration |-> 60,
     title |-> <<>>, subtitle |-> <<>>, artist |-> <<>>,
     author |-> <<>>, composer |-> <<>>, producer |-> <<>>]

\* No effect chosen yet; the lead time is 1 s.
DEFAULT_TRANSITION == [effect |-> "none", duration |-> 10]

\* isRecording false, mediaRecorderRef and chunksRef empty; started counts
\* the recorders made, pending the stop() calls whose events are still
\* queued, downloads lists the files saved (their number of chunks).
NoRecorder ==
    [isRecording |-> FALSE, state |-> "none", started |-> 0, pending |-> 0,
     chunks |-> 0, downloads |-> <<>>]

\* The lyric editor, closed and empty.  lines lists the LrcLine objects of
\* its state by identity and heap holds their fields; request is <<>> or
\* holds the lines array handleAiTranslate closed over; response is <<>>
\* or holds the answer that has arrived and waits for the handler to go on.
\* app lists the objects of the application's lrcLines array: the editor
\* is given that array as initialLines, objects and all.
NoEditor ==
    [isOpen |-> FALSE, lines |-> <<>>, heap |-> <<>>, app |-> <<>>,
     isTranslating |-> FALSE, request |-> <<>>, response |-> <<>>]

\* IndexedDB before anything is saved: two object stores keyed by the id
\* field of their entries, none of which exists yet.
EmptyDatabase == [projects |-> {}, assets |-> {}]

\* The value of a Blob | null variable that holds no blob.
NoBlob == "null"

\* One call of loadProjectFromDB. pc is "idle" (no call), "meta" (the
\* metadata request is out), "assets" (the asset requests are out) or
\* "done" (nothing of the call is left to run). data is the result of the
\* metadata request, a set with the project or with nothing. requests are
\* the asset requests whose callback has not fired. promise is the state
\* of the returned promise and value what it resolved with. resolveCalls
\* counts the calls of resolve, reads the asset requests issued, errored
\* and aborted record a failed request and the abort that follows it.
NoLoad ==
    [pc |-> "idle", id |-> "", data |-> {}, requests |-> {},
     pendingRequests |-> 0, hasError |-> FALSE,
     audioBlob |-> NoBlob, backgroundBlobs |-> {},
     promise |-> "pending", value |-> <<>>,
     resolveCalls |-> 0, reads |-> 0,
     errored |-> FALSE, aborted |-> FALSE]

\* One call of deleteProjectFromDB: pc is "idle" or "delete" (the metadata
\* was read into projectData, the deleting transaction is still to run).
NoDelete == [pc |-> "idle", id |-> "", projectData |-> {}]

\* No call of utils/db.ts is running.
NoCalls == [load |-> NoLoad, delete |-> NoDelete]

NoVideos == [s \in {} |-> 0]
NoMemo == [set |-> FALSE]

\* document.createElement('video') with src set and load() called.
NewVideoElement ==
    [duration |-> NaNDuration, videoWidth |-> 0, currentTime |-> 0, paused |-> TRUE]

InitApp ==
    /\ backgrounds = <<>>
    /\ videoElements = NoVideos
    /\ lrcLines = <<>>
    /\ lyricStyle = DEFAULT_LYRIC_STYLE
    /\ titleStyle = DEFAULT_TITLE_STYLE
    /\ titleConfig = DEFAULT_TITLE_CONFIG
    /\ currentTime = 0
    /\ isPlaying = FALSE
    /\ audio = [src |-> FALSE, paused |-> TRUE, ended |-> FALSE, time |-> 0]
    /\ frame = RenderFrame(<<>>, NoVideos, <<>>, DEFAULT_LYRIC_STYLE,
                           DEFAULT_TITLE_STYLE, DEFAULT_TITLE_CONFIG, 0, FALSE)
    /\ recorder = NoRecorder
    /\ editor = NoEditor
    /\ transition = DEFAULT_TRANSITION
    /\ scene = Scene(<<>>, NoVideos, DEFAULT_TRANSITION, 0)
    /\ memo = NoMemo
    /\ lrcContent = <<>>
    /\ db = EmptyDatabase
    /\ dbCalls = NoCalls

\* const img = new Image(); img.src = ...: made only when the current segment
\* is an image, and drawn at once, loaded by then or not.
ImageLoadOutcomes(bgs, vids, t) ==
    LET i == BackgroundLayer(bgs, vids, t, FALSE).idx
    IN  IF i # 0 /\ bgs[i].type = "image" THEN BOOLEAN ELSE {FALSE}

\* Variant: the pass draws with the time of the pass before it (a stale
\* closure over currentTime).
RerenderStaleTime(vids) ==
    /\ \E imgReady \in ImageLoadOutcomes(backgrounds', vids, currentTime) :
          frame' = RenderFrame(backgrounds', vids, lrcLines', lyricStyle',
                               titleStyle', titleConfig', currentTime, imgReady)
    /\ scene' = Scene(backgrounds', vids, transition', currentTime)
    /\ videoElements' = VideosAfterDraw(backgrounds', vids, currentTime, isPlaying')

\* --------------------------------------------------------------- actions
\* Every state change makes React run the animation-loop effect again, and
\* the loop draws on every animation frame: each action ends with the
\* render pass that follows it.  vids is the video cache the handler left.
Rerender(vids) ==
    /\ \E imgReady \in ImageLoadOutcomes(backgrounds', vids, currentTime') :
          frame' = RenderFrame(backgrounds', vids, lrcLines', lyricStyle',
                               titleStyle', titleConfig', currentTime', imgReady)
    /\ scene' = Scene(backgrounds', vids, transition', currentTime')
    /\ videoElements' = VideosAfterDraw(backgrounds', vids, currentTime', isPlaying')

UsedIds(bgs) == {bgs[i].id : i \in DOMAIN bgs}
UsedSrcs(bgs, vids) == {bgs[i].src : i \in DOMAIN bgs} \cup DOMAIN vids

\* Math.random().toString(36).substr(2, 9) and URL.createObjectURL(file)
\* give values not in use; they are numbered here.
FreshFrom(used) == CHOOSE n \in 1..(Cardinality(used) + 1) :
                      n \notin used /\ \A m \in 1..(n - 1) : m \in used

\* handleBackgroundUpload, one file after the other: st = <<items, cache>>.
RECURSIVE UploadFiles(_, _, _)
UploadFiles(files, bgs, vids) ==
    IF files = <<>> THEN <<bgs, vids>>
    ELSE LET kind == Head(files)
             url == FreshFrom(UsedSrcs(bgs, vids))
             item == [id |-> FreshFrom(UsedIds(bgs)), type |-> kind, src |-> url,
                      file |-> url,
                      duration |-> IF kind = "image" THEN ImageDefaultDuration ELSE 0]
             cache == IF kind = "video" /\ url \notin DOMAIN vids
                      THEN [s \in DOMAIN vids \cup {url} |->
                               IF s = url THEN NewVideoElement ELSE vids[s]]
                      ELSE vids
         IN  UploadFiles(Tail(files), Append(bgs, item), cache)

HandleBackgroundUpload(files) ==
    /\ Len(backgrounds) + Len(files) <= MaxBg
    /\ backgrounds' = UploadFiles(files, backgrounds, videoElements)[1]
    /\ UNCHANGED <<lrcLines, lyricStyle, titleStyle, titleConfig, currentTime,
                   isPlaying, audio, memo, lrcContent, db, dbCalls>>
    /\ UNCHANGED <<recorder, editor, transition>>
    /\ Rerender(UploadFiles(files, backgrounds, videoElements)[2])

\* prev.find(b => b.id === id), as an index (0: not found).
IndexOfId(bgs, id) ==
    IF \E i \in DOMAIN bgs : bgs[i].id = id
    THEN CHOOSE i \in DOMAIN bgs :
            bgs[i].id = id /\ \A j \in DOMAIN bgs : bgs[j].id = id => i <= j
    ELSE 0

\* prev.filter(b => b.id !== id)
RECURSIVE WithoutId(_, _)
WithoutId(bgs, id) ==
    IF bgs = <<>> THEN <<>>
    ELSE IF Head(bgs).id = id THEN WithoutId(Tail(bgs), id)
    ELSE <<Head(bgs)>> \o WithoutId(Tail(bgs), id)

\* Variant: the element of a removed video is released whoever shares it.
CacheAfterRemoveUnshared(bgs, vids, id) ==
    LET i == IndexOfId(bgs, id)
    IN  IF i # 0 /\ bgs[i].type = "video" /\ bgs[i].src \in DOMAIN vids
        THEN [s \in DOMAIN vids \ {bgs[i].src} |-> vids[s]]
        ELSE vids

\* The cache after removeBackground(id): the element is released only when
\* the removed item is a video and no other item uses its src.
CacheAfterRemove(bgs, vids, id) ==
    LET i == IndexOfId(bgs, id)
    IN  IF i # 0 /\ bgs[i].type = "video"
           /\ ~(\E j \in DOMAIN bgs : bgs[j].id # id /\ bgs[j].src = bgs[i].src)
           /\ bgs[i].src \in DOMAIN vids
        THEN [s \in DOMAIN vids \ {bgs[i].src} |-> vids[s]]
        ELSE vids

RemoveBackground(id) ==
    /\ backgrounds' = WithoutId(backgrounds, id)
    /\ UNCHANGED <<lrcLines, lyricStyle, titleStyle, titleConfig, currentTime,
                   isPlaying, audio, memo, lrcContent, db, dbCalls>>
    /\ UNCHANGED <<recorder, editor, transition>>
    /\ Rerender(CacheAfterRemove(backgrounds, videoElements, id))

\* newArr.splice(index + 1, 0, copy): the copy follows its original.
Duplicated(bgs, id) ==
    LET i == IndexOfId(bgs, id)
    IN  IF i = 0 THEN bgs
        ELSE SubSeq(bgs, 1, i)
             \o <<[bgs[i] EXCEPT !.id = FreshFrom(UsedIds(bgs))]>>
             \o SubSeq(bgs, i + 1, Len(bgs))

\* duplicateBackground(id), on a playlist of fewer than limit items.
DuplicateWithin(id, limit) ==
    /\ Len(backgrounds) < limit
    /\ backgrounds' = Duplicated(backgrounds, id)
    /\ UNCHANGED <<lrcLines, lyricStyle, titleStyle, titleConfig, currentTime,
                   isPlaying, audio, memo, lrcContent, db, dbCalls>>
    /\ UNCHANGED <<recorder, editor, transition>>
    /\ Rerender(videoElements)

DuplicateBackground(id) == DuplicateWithin(id, MaxBg)

\* prev.map(b => b.id === id ? {...b, duration: dur} : b)
UpdateBackgroundDuration(id, dur) ==
    /\ backgrounds' = [i \in DOMAIN backgrounds |->
                          IF backgrounds[i].id = id
                          THEN [backgrounds[i] EXCEPT !.duration = dur]
                          ELSE backgrounds[i]]
    /\ UNCHANGED <<lrcLines, lyricStyle, titleStyle, titleConfig, currentTime,
                   isPlaying, audio, memo, lrcContent, db, dbCalls>>
    /\ UNCHANGED <<recorder, editor, transition>>
    /\ Rerender(videoElements)

\* The browser has read a cached video's metadata: its length and its frame
\* size become known.
VideoLoadedMetadata(src, d) ==
    /\ src \in DOMAIN videoElements
    /\ videoElements[src].duration = NaNDuration
    /\ UNCHANGED <<backgrounds, lrcLines, lyricStyle, titleStyle, titleConfig,
                   currentTime, isPlaying, audio, memo, lrcContent, db, dbCalls>>
    /\ UNCHANGED <<recorder, editor, transition>>
    /\ Rerender([videoElements EXCEPT ![src].duration = d, ![src].videoWidth = 1280])

\* handleAudioUpload: the element gets a source and audio.load() resets it.
HandleAudioUpload ==
    /\ audio' = [src |-> TRUE, paused |-> TRUE, ended |-> FALSE, time |-> 0]
    /\ UNCHANGED <<backgrounds, lrcLines, lyricStyle, titleStyle, titleConfig,
                   currentTime, isPlaying, memo, lrcContent, db, dbCalls>>
    /\ UNCHANGED <<recorder, editor, transition>>
    /\ Rerender(videoElements)

\* audio.play(): playback that had ended starts over from the beginning.
PlayAudio(a) ==
    [a EXCEPT !.paused = FALSE, !.ended = FALSE, !.time = IF a.ended THEN 0 ELSE @]

\* audio.pause()
PauseAudio(a) == [a EXCEPT !.paused = TRUE]

\* videoElementsRef.current.forEach(v => v.pause())
AllPaused(vids) == [s \in DOMAIN vids |-> [vids[s] EXCEPT !.paused = TRUE]]

\* togglePlay (its button is disabled until audio is uploaded).
TogglePlay ==
    /\ audio.src
    /\ audio' = IF isPlaying THEN PauseAudio(audio) ELSE PlayAudio(audio)
    /\ isPlaying' = ~isPlaying
    /\ UNCHANGED <<backgrounds, lrcLines, lyricStyle, titleStyle, titleConfig,
                   currentTime, memo, lrcContent, db, dbCalls>>
    /\ UNCHANGED <<recorder, editor, transition>>
    /\ Rerender(IF isPlaying THEN AllPaused(videoElements) ELSE videoElements)

\* handleSeek (the slider is disabled until audio is uploaded).
HandleSeek(t) ==
    /\ audio.src
    /\ audio' = [audio EXCEPT !.time = t, !.ended = FALSE]
    /\ currentTime' = t
    /\ UNCHANGED <<backgrounds, lrcLines, lyricStyle, titleStyle, titleConfig,
                   isPlaying, memo, lrcContent, db, dbCalls>>
    /\ UNCHANGED <<recorder, editor, transition>>
    /\ Rerender(videoElements)

\* One animation frame while the audio plays: the loop copies the audio
\* position, which has advanced by dt, into currentTime and draws.
AnimationFrame(dt) ==
    /\ ~audio.paused
    /\ audio.time + dt <= MaxTime
    /\ audio' = [audio EXCEPT !.time = @ + dt]
    /\ currentTime' = audio.time + dt
    /\ UNCHANGED <<backgrounds, lrcLines, lyricStyle, titleStyle, titleConfig,
                   isPlaying, memo, lrcContent, db, dbCalls>>
    /\ UNCHANGED <<recorder, editor, transition>>
    /\ Rerender(videoElements)

\* What a render pass is given: the time and the configuration state.
RenderInputs ==
    [time |-> currentTime, backgrounds |-> backgrounds, lrcLines |-> lrcLines,
     lyricStyle |-> lyricStyle, titleStyle |-> titleStyle,
     titleConfig |-> titleConfig]

\* The length each cached video element reports.
MediaDurations == [s \in DOMAIN videoElements |-> videoElements[s].duration]

\* What a frame shows: the background segment and the text draws.
FrameOutput(f) == [segment |-> f.bg.idx, draws |-> f.draws]

\* One more iteration of the animation loop with nothing changed: drawCanvas
\* runs again.  The first such pass is remembered, with what it was given.
Redraw ==
    /\ UNCHANGED <<backgrounds, lrcLines, lyricStyle, titleStyle, titleConfig,
                   currentTime, isPlaying, audio>>
    /\ UNCHANGED <<recorder, editor, transition, lrcContent, db, dbCalls>>
    /\ Rerender(videoElements)
    /\ memo' = IF memo.set THEN memo
               ELSE [set |-> TRUE, inputs |-> RenderInputs,
                     media |-> MediaDurations, videos |-> videoElements',
                     output |-> FrameOutput(frame')]

\* The effect <select> of the style panel, in lyric and in title mode.
SetLyricEffect(e) ==
    /\ lyricStyle' = [lyricStyle EXCEPT !.animationEffect = e]
    /\ UNCHANGED <<backgrounds, lrcLines, titleStyle, titleConfig, currentTime,
                   isPlaying, audio, memo, lrcContent, db, dbCalls>>
    /\ UNCHANGED <<recorder, editor, transition>>
    /\ Rerender(videoElements)

SetTitleEffect(e) ==
    /\ titleStyle' = [titleStyle EXCEPT !.animationEffect = e]
    /\ UNCHANGED <<backgrounds, lrcLines, lyricStyle, titleConfig, currentTime,
                   isPlaying, audio, memo, lrcContent, db, dbCalls>>
    /\ UNCHANGED <<recorder, editor, transition>>
    /\ Rerender(videoElements)

\* TitleEditor "Apply Settings": onSave(localConfig).
SaveTitleConfig(cfg) ==
    /\ titleConfig' = cfg
    /\ UNCHANGED <<backgrounds, lrcLines, lyricStyle, titleStyle, currentTime,
                   isPlaying, audio, memo, lrcContent, db, dbCalls>>
    /\ UNCHANGED <<recorder, editor, transition>>
    /\ Rerender(videoElements)

\* setLrcLines(lines), from the control panel: the lyric editor is a
\* full-screen overlay, the panel is out of reach while it is open.
SetLrcLines(lines) ==
    /\ ~editor.isOpen
    /\ lrcLines' = lines
    /\ UNCHANGED <<backgrounds, lyricStyle, titleStyle, titleConfig, currentTime,
                   isPlaying, audio, memo, lrcContent, db, dbCalls>>
    /\ UNCHANGED <<recorder, editor, transition>>
    /\ Rerender(videoElements)

\* The transition settings of the project: an effect and a lead time.
SetTransition(effect, duration) ==
    /\ transition' = [effect |-> effect, duration |-> duration]
    /\ UNCHANGED <<backgrounds, lrcLines, lyricStyle, titleStyle, titleConfig,
                   currentTime, isPlaying, audio, recorder, editor, memo, lrcContent, db, dbCalls>>
    /\ Rerender(videoElements)

\* ------------------------------------------------------------ recording
\* stopRecording, its part on the recorder: when there is a recorder that
\* is not inactive, recorder.stop() (the dataavailable and stop events are
\* queued) and setIsRecording(false).
StoppedRecording(rec) ==
    IF rec.state = "recording"
    THEN [rec EXCEPT !.state = "inactive", !.isRecording = FALSE, !.pending = @ + 1]
    ELSE rec

\* startRecording (the button is shown while not recording, and disabled
\* until audio is uploaded): playback is started if it is not running, a
\* new MediaRecorder is made and started, setIsRecording(true).
StartRecording ==
    /\ audio.src
    /\ ~recorder.isRecording
    /\ recorder.started < MaxRecordings
    /\ audio' = IF isPlaying THEN audio ELSE PlayAudio(audio)
    /\ isPlaying' = TRUE
    /\ recorder' = [recorder EXCEPT !.isRecording = TRUE, !.state = "recording",
                                    !.started = @ + 1]
    /\ UNCHANGED <<backgrounds, lrcLines, lyricStyle, titleStyle, titleConfig,
                   currentTime, editor, transition, memo, lrcContent, db, dbCalls>>
    /\ Rerender(videoElements)

\* stopRecording, from its button (shown while recording): the recorder is
\* stopped and, if isPlaying, togglePlay() pauses the playback.
StopRecording ==
    /\ recorder.isRecording
    /\ recorder' = StoppedRecording(recorder)
    /\ IF recorder.state = "recording" /\ isPlaying
       THEN /\ audio' = PauseAudio(audio)
            /\ isPlaying' = FALSE
            /\ UNCHANGED <<backgrounds, lrcLines, lyricStyle, titleStyle,
                           titleConfig, currentTime, editor, transition, memo, lrcContent, db, dbCalls>>
            /\ Rerender(AllPaused(videoElements))
       ELSE /\ UNCHANGED <<backgrounds, lrcLines, lyricStyle, titleStyle,
                           titleConfig, currentTime, isPlaying, audio,
                           editor, transition, memo, lrcContent, db, dbCalls>>
            /\ Rerender(videoElements)

\* The audio plays to its end: the element pauses itself and fires ended.
\* onEnded: setIsPlaying(false); if (isRecording) stopRecording(), whose
\* togglePlay() (isPlaying is still true in the handler's closure) pauses
\* the videos and sets isPlaying to false again.
AudioEnded ==
    /\ audio.src
    /\ ~audio.paused
    /\ audio' = [audio EXCEPT !.paused = TRUE, !.ended = TRUE]
    /\ isPlaying' = FALSE
    /\ recorder' = IF recorder.isRecording THEN StoppedRecording(recorder)
                   ELSE recorder
    /\ UNCHANGED <<backgrounds, lrcLines, lyricStyle, titleStyle, titleConfig,
                   currentTime, editor, transition, memo, lrcContent, db, dbCalls>>
    /\ Rerender(IF recorder.isRecording /\ recorder.state = "recording" /\ isPlaying
                THEN AllPaused(videoElements) ELSE videoElements)

\* The events a stop() queued are delivered: ondataavailable pushes the
\* recorded data onto chunksRef, onstop saves the chunks as a .webm file
\* and empties chunksRef.
RecorderStopEvents ==
    /\ recorder.pending > 0
    /\ recorder' = [recorder EXCEPT !.pending = @ - 1,
                                    !.downloads = Append(@, recorder.chunks + 1),
                                    !.chunks = 0]
    /\ UNCHANGED <<backgrounds, lrcLines, lyricStyle, titleStyle, titleConfig,
                   currentTime, isPlaying, audio, editor, transition, memo, lrcContent, db, dbCalls>>
    /\ Rerender(videoElements)

\* --------------------------------------------------------- the lyric editor
\* The objects of a list of lines, numbered from 1.
HeapOf(lines) == [i \in 1..Len(lines) |-> lines[i]]

\* onOpenLyricEditor and the editor's effect on isOpen: playback is paused
\* and the editor takes initialLines, the application's array itself
\* (setLines(initialLines)).  The objects are numbered anew; reopening
\* while a translation is still under way is left out.
OpenLyricEditor ==
    /\ audio.src
    /\ ~editor.isOpen
    /\ editor.request = <<>>
    /\ isPlaying' = FALSE
    /\ audio' = PauseAudio(audio)
    /\ editor' = [editor EXCEPT !.isOpen = TRUE,
                                !.lines = [i \in 1..Len(lrcLines) |-> i],
                                !.app = [i \in 1..Len(lrcLines) |-> i],
                                !.heap = HeapOf(lrcLines)]
    /\ UNCHANGED <<backgrounds, lrcLines, lyricStyle, titleStyle, titleConfig,
                   currentTime, recorder, transition, memo, lrcContent, db, dbCalls>>
    /\ Rerender(videoElements)

\* What an action of the editor leaves alone.
EditorOnly ==
    /\ UNCHANGED <<backgrounds, lrcLines, lyricStyle, titleStyle, titleConfig,
                   currentTime, isPlaying, audio, recorder, transition, memo,
                   lrcContent, db, dbCalls>>
    /\ Rerender(videoElements)

\* The application's lrcLines as its objects now read.
AppLines(ed) == [i \in DOMAIN ed.app |-> ed.heap[ed.app[i]]]

\* What an action of the editor that writes a line object leaves alone:
\* an object of the application's array is changed in that array too, and
\* the next pass of the animation loop draws it.
EditorWritesObject ==
    /\ lrcLines' = AppLines(editor')
    /\ UNCHANGED <<backgrounds, lyricStyle, titleStyle, titleConfig,
                   currentTime, isPlaying, audio, recorder, transition, memo,
                   lrcContent, db, dbCalls>>
    /\ Rerender(videoElements)

\* updateLineText: newLines = [...lines]; newLines[index].text = newText.
\* The line object itself is written; the array is a copy.
UpdateLineText(index, newText) ==
    /\ editor.isOpen
    /\ index \in DOMAIN editor.lines
    /\ editor' = [editor EXCEPT !.heap[editor.lines[index]].text = newText]
    /\ EditorWritesObject

\* updateLineTime: newLines[index].time = Math.max(0, newTime).
UpdateLineTime(index, newTime) ==
    /\ editor.isOpen
    /\ index \in DOMAIN editor.lines
    /\ editor' = [editor EXCEPT !.heap[editor.lines[index]].time = Max(0, newTime)]
    /\ EditorWritesObject

\* handleTap in the sync view, with activeIndex on row index: the row gets
\* the audio position the editor has polled plus globalOffset (-0.2 s),
\* not below 0.
HandleTap(index) ==
    /\ editor.isOpen
    /\ index \in DOMAIN editor.lines
    /\ editor' = [editor EXCEPT
                     !.heap[editor.lines[index]].time = Max(0, audio.time - 2)]
    /\ EditorWritesObject

\* togglePlay of the editor, and the space bar of its sync view while
\* nothing plays: play() or pause() on the application's audio element,
\* by the element's state as the editor polls it.  The application's
\* isPlaying is not the editor's to set.
EditorTogglePlay ==
    /\ editor.isOpen
    /\ audio' = IF audio.paused THEN PlayAudio(audio) ELSE PauseAudio(audio)
    /\ UNCHANGED <<backgrounds, lrcLines, lyricStyle, titleStyle, titleConfig,
                   currentTime, isPlaying, recorder, editor, transition, memo,
                   lrcContent, db, dbCalls>>
    /\ Rerender(videoElements)

\* The editor closed.  What a closed editor holds is replaced when it is
\* opened again; it is dropped at once unless a translation under way
\* still refers to it.
Closed(ed) ==
    IF ed.request = <<>> THEN NoEditor ELSE [ed EXCEPT !.isOpen = FALSE]

\* The X button: onClose().
CloseEditor ==
    /\ editor.isOpen
    /\ editor' = Closed(editor)
    /\ EditorOnly

\* Save & Apply: onSave(lines), which is setLrcLines(lines), and onClose().
SaveAndApply ==
    /\ editor.isOpen
    /\ lrcLines' = [i \in DOMAIN editor.lines |-> editor.heap[editor.lines[i]]]
    /\ editor' = Closed([editor EXCEPT !.app = editor.lines])
    /\ UNCHANGED <<backgrounds, lyricStyle, titleStyle, titleConfig,
                   currentTime, isPlaying, audio, recorder, transition, memo,
                   lrcContent, db, dbCalls>>
    /\ Rerender(videoElements)

\* insertLineAfter: a new empty line with the time of the line before it.
InsertLineAfter(index) ==
    /\ editor.isOpen
    /\ index \in DOMAIN editor.lines
    /\ Len(editor.lines) <= MaxSourceLines
    /\ Len(editor.heap) < MaxLineObjects
    /\ LET id == Len(editor.heap) + 1
       IN  editor' = [editor EXCEPT
                         !.lines = SubSeq(@, 1, index) \o <<id>>
                                   \o SubSeq(@, index + 1, Len(@)),
                         !.heap = Append(@, [time |-> @[editor.lines[index]].time,
                                             text |-> <<>>])]
    /\ EditorOnly

\* The delete button of a row: lines.filter((_, i) => i !== idx).
DeleteLine(idx) ==
    /\ editor.isOpen
    /\ idx \in DOMAIN editor.lines
    /\ editor' = [editor EXCEPT
                     !.lines = SubSeq(@, 1, idx - 1) \o SubSeq(@, idx + 1, Len(@))]
    /\ EditorOnly

\* String.prototype.trim and toLowerCase, on the characters in use.
WhiteSpace == {" ", "\t", "\r", "\n"}
RECURSIVE TrimStart(_)
TrimStart(t) ==
    IF t # <<>> /\ Head(t) \in WhiteSpace THEN TrimStart(Tail(t)) ELSE t
RECURSIVE TrimEnd(_)
TrimEnd(t) ==
    IF t # <<>> /\ t[Len(t)] \in WhiteSpace
    THEN TrimEnd(SubSeq(t, 1, Len(t) - 1)) ELSE t
Trim(t) == TrimEnd(TrimStart(t))
LowerChar(c) == IF c = "L" THEN "l" ELSE IF c = "A" THEN "a" ELSE c
ToLowerCase(t) == [k \in DOMAIN t |-> LowerChar(t[k])]

\* An element of the translations array: a string, null, or a number.
Str(t) == [k |-> "string", v |-> t]
NullValue == [k |-> "null", v |-> <<>>]
NumberValue == [k |-> "number", v |-> <<>>]

\* trans && trans.trim() && trans.trim().toLowerCase() !==
\* line.text.trim().toLowerCase(), for a string or null
IsDistinctTranslation(trans, text) ==
    /\ trans.k = "string"
    /\ trans.v # <<>>
    /\ Trim(trans.v) # <<>>
    /\ ToLowerCase(Trim(trans.v)) # ToLowerCase(Trim(text))

\* trans.trim is not a function: a truthy element that is not a string
ThrowsOnTrim(translations) ==
    \E k \in DOMAIN translations : translations[k].k = "number"

\* Variant: the translation line is pushed before its original.
RECURSIVE MergedTranslationFirst(_, _, _)
MergedTranslationFirst(ids, heap, translations) ==
    IF ids = <<>> THEN [lines |-> <<>>, heap |-> heap]
    ELSE LET line == heap[Head(ids)]
             trans == Head(translations)
             add == IsDistinctTranslation(trans, line.text)
             h == IF add THEN Append(heap, [time |-> line.time, text |-> Trim(trans.v)])
                  ELSE heap
             rest == MergedTranslationFirst(Tail(ids), h, Tail(translations))
         IN  [lines |-> (IF add THEN <<Len(h)>> ELSE <<>>) \o <<Head(ids)>> \o rest.lines,
              heap |-> rest.heap]

\* lines.forEach((line, idx) => ...): mergedLines, over the lines array of
\* the closure and the line objects as they are now.
RECURSIVE MergedLines(_, _, _)
MergedLines(ids, heap, translations) ==
    IF ids = <<>> THEN [lines |-> <<>>, heap |-> heap]
    ELSE LET line == heap[Head(ids)]
             trans == Head(translations)
             add == IsDistinctTranslation(trans, line.text)
             h == IF add THEN Append(heap, [time |-> line.time, text |-> Trim(trans.v)])
                  ELSE heap
             rest == MergedLines(Tail(ids), h, Tail(translations))
         IN  [lines |-> <<Head(ids)>> \o (IF add THEN <<Len(h)>> ELSE <<>>) \o rest.lines,
              heap |-> rest.heap]

\* handleAiTranslate up to its await: nothing without lines; otherwise
\* setIsTranslating(true) and the request is sent (the button is disabled
\* while isTranslating; an API key is configured).
HandleAiTranslate ==
    /\ editor.isOpen
    /\ ~editor.isTranslating
    /\ Len(editor.lines) > 0
    /\ Len(editor.lines) <= MaxSourceLines
    /\ Len(editor.heap) + Len(editor.lines) <= MaxLineObjects
    /\ editor' = [editor EXCEPT !.isTranslating = TRUE, !.request = <<editor.lines>>]
    /\ EditorOnly

\* ai.models.generateContent settles.  resp.k is "rejected" (the request
\* fails), "unparsable" (JSON.parse will throw), "no_array" (a result
\* without a translations array) or "array".
ResponseArrives(resp) ==
    /\ editor.request # <<>>
    /\ editor.response = <<>>
    /\ editor' = [editor EXCEPT !.response = <<resp>>]
    /\ EditorOnly

\* handleAiTranslate from its await on: the merge, or the alert, and
\* setIsTranslating(false) in the finally block.
TranslateResponse ==
    /\ editor.response # <<>>
    /\ LET sent == editor.request[1]
           resp == editor.response[1]
           merged == resp.k = "array"
                     /\ Len(resp.translations) = Len(sent)
                     /\ ~ThrowsOnTrim(resp.translations)
           m == MergedLines(sent, editor.heap, resp.translations)
       IN  editor' = [editor EXCEPT
                         !.lines = IF merged THEN m.lines ELSE @,
                         !.heap = IF merged THEN m.heap ELSE @,
                         !.isTranslating = FALSE,
                         !.request = <<>>,
                         !.response = <<>>]
    /\ EditorOnly

\* ------------------------------------------------------------- parseLrc
\* Times of parsed lines are counted in milliseconds in this section.
Digits == <<"0", "1", "2", "3", "4", "5", "6", "7", "8", "9">>
IsDigit(c) == \E i \in DOMAIN Digits : Digits[i] = c
DigitValue(c) == (CHOOSE i \in DOMAIN Digits : Digits[i] = c) - 1

\* parseInt(digits, 10) of a string of decimal digits.
RECURSIVE ParseInt(_)
ParseInt(digits) ==
    IF digits = <<>> THEN 0
    ELSE 10 * ParseInt(SubSeq(digits, 1, Len(digits) - 1))
         + DigitValue(digits[Len(digits)])

\* lrcContent.split('\n'): the pieces between the newlines, at least one.
RECURSIVE SplitLines(_, _)
SplitLines(content, piece) ==
    IF content = <<>> THEN <<piece>>
    ELSE IF Head(content) = "\n"
         THEN <<piece>> \o SplitLines(Tail(content), <<>>)
         ELSE SplitLines(Tail(content), Append(piece, Head(content)))

\* /\[(\d{2}):(\d{2})\.(\d{2,3})\]/ tried at position p: the length of the
\* match (11 with three digits of fraction, 10 with two), or 0.
TagLengthAt(line, p) ==
    LET is(k, c) == p + k <= Len(line) /\ line[p + k] = c
        digit(k) == p + k <= Len(line) /\ IsDigit(line[p + k])
        upToFraction == /\ is(0, "[") /\ digit(1) /\ digit(2) /\ is(3, ":")
                        /\ digit(4) /\ digit(5) /\ is(6, ".")
                        /\ digit(7) /\ digit(8)
    IN  IF upToFraction /\ digit(9) /\ is(10, "]") THEN 11
        ELSE IF upToFraction /\ is(9, "]") THEN 10
        ELSE 0

\* timeRegExp.exec(line): the leftmost match, as <<position, length>>, or
\* <<0, 0>> for null.
ExecTimeRegExp(line) ==
    LET at == {p \in DOMAIN line : TagLengthAt(line, p) > 0}
    IN  IF at = {} THEN <<0, 0>>
        ELSE LET p == CHOOSE q \in at : \A r \in at : q <= r
             IN  <<p, TagLengthAt(line, p)>>

\* Variant: parseInt(match[3], 10) without the padEnd.
MillisecondsUnpadded(fraction) == ParseInt(fraction)

\* parseInt(match[3].padEnd(3, '0'), 10).
Milliseconds(fraction) ==
    ParseInt(IF Len(fraction) < 3 THEN Append(fraction, "0") ELSE fraction)

\* The body of the forEach for one line: <<>> when the line is skipped,
\* else the one LrcLine pushed.
ParsedLine(line) ==
    LET m == ExecTimeRegExp(line)
        p == m[1]
        minutes == ParseInt(SubSeq(line, p + 1, p + 2))
        seconds == ParseInt(SubSeq(line, p + 4, p + 5))
        milliseconds == Milliseconds(SubSeq(line, p + 7, p + m[2] - 2))
        text == Trim(SubSeq(line, 1, p - 1) \o SubSeq(line, p + m[2], Len(line)))
    IN  IF m[2] = 0 \/ text = <<>> THEN <<>>
        ELSE <<[time |-> minutes * 60000 + seconds * 1000 + milliseconds,
                text |-> text]>>

\* Array.prototype.sort((a, b) => a.time - b.time), which is stable: each
\* line goes behind the lines that are not later than it.
RECURSIVE SortByTime(_)
SortByTime(lines) ==
    IF lines = <<>> THEN <<>>
    ELSE LET sorted == SortByTime(SubSeq(lines, 1, Len(lines) - 1))
             last == lines[Len(lines)]
             before == SelectSeq(sorted, LAMBDA l : l.time <= last.time)
             after == SelectSeq(sorted, LAMBDA l : l.time > last.time)
         IN  before \o <<last>> \o after

RECURSIVE ParsedLines(_)
ParsedLines(lines) ==
    IF lines = <<>> THEN <<>>
    ELSE ParsedLine(Head(lines)) \o ParsedLines(Tail(lines))

ParseLrc(lrcContent_) == SortByTime(ParsedLines(SplitLines(lrcContent_, <<>>)))

\* The frames are drawn on a grid of tenths of a second: a time in
\* milliseconds is taken down to the grid.
OnFrameGrid(lines) ==
    [i \in DOMAIN lines |-> [time |-> lines[i].time \div 100, text |-> lines[i].text]]

\* handleLrcUpload(text): setLrcLines(parseLrc(text)).
HandleLrcUpload(text) ==
    /\ ~editor.isOpen
    /\ lrcContent' = text
    /\ lrcLines' = OnFrameGrid(ParseLrc(text))
    /\ UNCHANGED <<backgrounds, lyricStyle, titleStyle, titleConfig, currentTime,
                   isPlaying, audio, recorder, editor, transition, memo, db,
                   dbCalls>>
    /\ Rerender(videoElements)

\* ------------------------------------------------------- specifications
\* The application with an audio file loaded.
InitLoaded ==
    /\ backgrounds = <<>>
    /\ videoElements = NoVideos
    /\ lrcLines = <<>>
    /\ lyricStyle = DEFAULT_LYRIC_STYLE
    /\ titleStyle = DEFAULT_TITLE_STYLE
    /\ titleConfig = DEFAULT_TITLE_CONFIG
    /\ currentTime = 0
    /\ isPlaying = FALSE
    /\ audio = [src |-> TRUE, paused |-> TRUE, ended |-> FALSE, time |-> 0]
    /\ frame = RenderFrame(<<>>, NoVideos, <<>>, DEFAULT_LYRIC_STYLE,
                           DEFAULT_TITLE_STYLE, DEFAULT_TITLE_CONFIG, 0, FALSE)
    /\ recorder = NoRecorder
    /\ editor = NoEditor
    /\ transition = DEFAULT_TRANSITION
    /\ scene = Scene(<<>>, NoVideos, DEFAULT_TRANSITION, 0)
    /\ memo = NoMemo
    /\ lrcContent = <<>>
    /\ db = EmptyDatabase
    /\ dbCalls = NoCalls

BgIds == 1..(MaxBg + 1)
\* 0 s, 0.5 s, 1 s, ...: the segment boundaries and the points between them.
LoopSeekTimes == {5 * k : k \in 0..MaxLoopSteps}

\* The background playlist under editing and seeking.
NextPlaylist ==
    \/ \E files \in FileLists : HandleBackgroundUpload(files)
    \/ \E id \in BgIds : RemoveBackground(id)
    \/ \E id \in BgIds : DuplicateBackground(id)
    \/ \E id \in BgIds, dur \in DurationInputs : UpdateBackgroundDuration(id, dur)
    \/ \E src \in DOMAIN videoElements, d \in IntrinsicDurations :
          VideoLoadedMetadata(src, d)
    \/ \E t \in LoopSeekTimes : HandleSeek(t)

\* A project with a title set, no backgrounds yet.
TestTitle == <<"T", "e", "s", "t">>

InitPlaylist ==
    /\ backgrounds = <<>>
    /\ videoElements = NoVideos
    /\ lrcLines = <<>>
    /\ lyricStyle = DEFAULT_LYRIC_STYLE
    /\ titleStyle = DEFAULT_TITLE_STYLE
    /\ titleConfig = [DEFAULT_TITLE_CONFIG EXCEPT !.title = TestTitle]
    /\ currentTime = 0
    /\ isPlaying = FALSE
    /\ audio = [src |-> TRUE, paused |-> TRUE, ended |-> FALSE, time |-> 0]
    /\ frame = RenderFrame(<<>>, NoVideos, <<>>, DEFAULT_LYRIC_STYLE,
                           DEFAULT_TITLE_STYLE,
                           [DEFAULT_TITLE_CONFIG EXCEPT !.title = TestTitle], 0, FALSE)
    /\ recorder = NoRecorder
    /\ editor = NoEditor
    /\ transition = DEFAULT_TRANSITION
    /\ scene = Scene(<<>>, NoVideos, DEFAULT_TRANSITION, 0)
    /\ memo = NoMemo
    /\ lrcContent = <<>>
    /\ db = EmptyDatabase
    /\ dbCalls = NoCalls

SpecPlaylist == InitPlaylist /\ [][NextPlaylist]_vars

\* ------------------------------------------------- C1: one current segment
\* The segments of the playlist the last render pass built: laid end to end
\* from 0, each of its item's effective length, ending at the cycle total.
SegmentsEndToEnd(pl) ==
    /\ pl[1].start = 0
    /\ \A i \in DOMAIN pl : pl[i].end = pl[i].start + pl[i].effectiveDuration
    /\ \A i \in DOMAIN pl : i > 1 => pl[i].start = pl[i - 1].end

\* The segments whose half-open interval [start, end) holds time lt.
SegmentsHolding(pl, lt) == {i \in DOMAIN pl : pl[i].start <= lt /\ lt < pl[i].end}

\* The render pass chose exactly one segment, the one holding the loop time.
OneCurrentSegment ==
    LET pl == frame.playlist
        total == pl[Len(pl)].end
    IN  /\ SegmentsEndToEnd(pl)
        /\ total > 0
        /\ frame.bg.idx # 0
        /\ frame.bg.loopTime = currentTime % total
        /\ SegmentsHolding(pl, frame.bg.loopTime) = {frame.bg.idx}
        /\ \A lt \in 0..(total - 1) : Cardinality(SegmentsHolding(pl, lt)) = 1

\* C1 as stated: for every non-empty background list and every currentTime
\* the playlist built in drawCanvas partitions [0, totalCycleDuration) into
\* contiguous segments and loopTime falls in exactly one of them, which is
\* the current segment.
C1_Original == Len(backgrounds) > 0 => OneCurrentSegment

\* C1 (amended): for every background list whose items all have an effective
\* duration >= 0 and whose totalCycleDuration is > 0, and every currentTime
\* >= 0, the segments built in drawCanvas are laid end to end from 0, are
\* contiguous and non-overlapping, cover [0, totalCycleDuration) with no
\* gaps, and loopTime = currentTime mod totalCycleDuration falls in exactly
\* one of them, which is the segment drawn as current.  When the total is
\* not > 0 no segment is selected.
C1_SegmentsPartition ==
    LET pl == frame.playlist
    IN  /\ (/\ Len(backgrounds) > 0
             /\ \A i \in DOMAIN pl : pl[i].effectiveDuration >= 0
             /\ pl[Len(pl)].end > 0)
            => OneCurrentSegment
        /\ (Len(backgrounds) > 0 /\ pl[Len(pl)].end <= 0) => frame.bg.idx = 0

\* A wrapped frame: two segments, the second current, in a later cycle.
C1_Witness ==
    /\ Len(backgrounds) = 2
    /\ \A i \in DOMAIN frame.playlist : frame.playlist[i].effectiveDuration > 0
    /\ frame.bg.idx = 2
    /\ frame.bg.loopTime < currentTime

\* ------------------------------------------------------------ C3: looping
\* The background choice of a render pass: segment and local time.
BgChoice(layer) == <<layer.idx, layer.localTime>>

\* C3: with totalCycleDuration > 0, the background segment chosen at time t
\* (and the local time in it) is the one chosen at every t - k * total >= 0,
\* that is: the choice at t + k * totalCycleDuration equals the choice at t.
\* The text layer is drawn from the absolute time.
C3_BackgroundLoops ==
    (Len(backgrounds) > 0 /\ TotalCycleDuration(backgrounds, videoElements) > 0) =>
        LET total == TotalCycleDuration(backgrounds, videoElements)
        IN  /\ \A k \in 1..currentTime :
                  currentTime - k * total >= 0 =>
                     BgChoice(BackgroundLayer(backgrounds, videoElements,
                                              currentTime - k * total, FALSE))
                     = BgChoice(frame.bg)
            /\ frame.draws = TitleLayer(titleConfig, titleStyle, frame.time)

\* One cycle later: the same background choice, another title frame.
C3_Witness ==
    LET total == TotalCycleDuration(backgrounds, videoElements)
    IN  /\ Len(backgrounds) > 0
        /\ total > 0
        /\ currentTime >= total
        /\ frame.bg.idx # 0
        /\ frame.bg.localTime > 0
        /\ frame.draws # TitleLayer(titleConfig, titleStyle, currentTime - total)

\* --------------------------------------------------- C4: effective duration
\* The cached element of a video item reports a usable length.
IntrinsicDurationKnown(bg) ==
    /\ bg.src \in DOMAIN videoElements
    /\ videoElements[bg.src].duration.k = "num"
    /\ videoElements[bg.src].duration.v # 0

\* C4 as stated: image or video, the effective duration is the user duration
\* when that is > 0, otherwise the intrinsic duration when known, otherwise
\* 10 s.
C4_Original ==
    \A i \in DOMAIN frame.playlist :
        LET bg == backgrounds[i]
        IN  frame.playlist[i].effectiveDuration =
               IF bg.duration > 0 THEN bg.duration
               ELSE IF IntrinsicDurationKnown(bg)
                    THEN videoElements[bg.src].duration.v
                    ELSE 100

\* C4 (amended): for every video item, effectiveDuration equals the item's
\* user duration when that is not 0, otherwise the video's intrinsic duration
\* when it is known (a finite number other than 0), otherwise the fallback
\* constant 10 s; for every image item effectiveDuration is the item's user
\* duration, so an image with user duration 0 gets effectiveDuration 0.
C4_EffectiveDuration ==
    /\ Len(frame.playlist) = Len(backgrounds)
    /\ \A i \in DOMAIN frame.playlist :
          LET bg == backgrounds[i]
          IN  frame.playlist[i].effectiveDuration =
                 IF bg.type = "image" THEN bg.duration
                 ELSE IF bg.duration # 0 THEN bg.duration
                 ELSE IF IntrinsicDurationKnown(bg)
                      THEN videoElements[bg.src].duration.v
                      ELSE 100

\* An image set to 0 s beside an auto video whose length is known.
C4_Witness ==
    /\ \E i \in DOMAIN backgrounds :
          /\ backgrounds[i].type = "image"
          /\ backgrounds[i].duration = 0
          /\ frame.playlist[i].effectiveDuration = 0
    /\ \E i \in DOMAIN backgrounds :
          /\ backgrounds[i].type = "video"
          /\ backgrounds[i].duration = 0
          /\ frame.playlist[i].effectiveDuration = 20

\* ------------------------------------------ the title sequence under editing
\* 0 s, 0.2 s, 0.4 s, ...: every stagger delay and the points between them.
TextSeekTimes == {2 * k : k \in 0..MaxTextSteps}

SubText == <<"S", "u", "b">>
ArtistText == <<"A", "r", "t", "i", "s", "t">>
AuthorText == <<"A", "n", "n">>
ComposerText == <<"B", "o">>
ProducerText == <<"C", "y">>

\* The six text fields, each left empty or filled in.
TitleFieldSets ==
    {[title |-> a, subtitle |-> b, artist |-> c, author |-> d, composer |-> e,
      producer |-> f] :
        a \in {<<>>, TestTitle}, b \in {<<>>, SubText}, c \in {<<>>, ArtistText},
        d \in {<<>>, AuthorText}, e \in {<<>>, ComposerText},
        f \in {<<>>, ProducerText}}

WithFields(cfg, fs) ==
    [cfg EXCEPT !.title = fs.title, !.subtitle = fs.subtitle, !.artist = fs.artist,
                !.author = fs.author, !.composer = fs.composer,
                !.producer = fs.producer]

\* Every combination of empty and filled fields, other settings at default.
FieldConfigs == {WithFields(DEFAULT_TITLE_CONFIG, fs) : fs \in TitleFieldSets}

NextTitleFields ==
    \/ \E cfg \in FieldConfigs : SaveTitleConfig(cfg)
    \/ \E t \in TextSeekTimes : HandleSeek(t)

SpecTitleFields == InitLoaded /\ [][NextTitleFields]_vars

\* Four field patterns under every layout, both enable settings and two
\* lengths of the sequence (the slider offers 3 s to 20 s).
TitlePatterns ==
    {fs \in TitleFieldSets :
        \/ fs = [title |-> <<>>, subtitle |-> <<>>, artist |-> <<>>,
                 author |-> <<>>, composer |-> <<>>, producer |-> <<>>]
        \/ fs = [title |-> TestTitle, subtitle |-> <<>>, artist |-> <<>>,
                 author |-> <<>>, composer |-> <<>>, producer |-> <<>>]
        \/ fs = [title |-> TestTitle, subtitle |-> <<>>, artist |-> ArtistText,
                 author |-> <<>>, composer |-> ComposerText, producer |-> <<>>]
        \/ fs = [title |-> TestTitle, subtitle |-> SubText, artist |-> ArtistText,
                 author |-> AuthorText, composer |-> ComposerText,
                 producer |-> ProducerText]}

TitleConfigs ==
    {WithFields([enabled |-> en, layoutMode |-> lm, duration |-> d,
                 title |-> <<>>, subtitle |-> <<>>, artist |-> <<>>,
                 author |-> <<>>, composer |-> <<>>, producer |-> <<>>], fs) :
        en \in BOOLEAN, lm \in LayoutModes, d \in {30, 60}, fs \in TitlePatterns}

\* The title-mode effect list (karaoke is offered for lyrics only).
TitleEffects == LyricEffects \ {"karaoke"}

NextTitle ==
    \/ \E cfg \in TitleConfigs : SaveTitleConfig(cfg)
    \/ \E e \in TitleEffects : SetTitleEffect(e)
    \/ \E t \in TextSeekTimes : HandleSeek(t)

SpecTitle == InitLoaded /\ [][NextTitle]_vars

\* ------------------------------------------------ C7: the title element list
FieldOrder == <<"title", "subtitle", "artist", "author", "composer", "producer">>
HeadFields == {"title", "subtitle", "artist"}

\* The non-empty fields of the title configuration, in field order.
PresentFields == SelectSeq(FieldOrder, LAMBDA f : titleConfig[f] # <<>>)

\* text ends with tail
EndsWith(text, tail) ==
    /\ Len(tail) <= Len(text)
    /\ SubSeq(text, Len(text) - Len(tail) + 1, Len(text)) = tail

\* C7: while the title sequence is drawn, the element list holds exactly one
\* element per non-empty field of the title configuration, in the order title,
\* subtitle, artist, author, composer, producer; the first delay is 0, each
\* present title/subtitle/artist adds 0.4 s and each present credit adds
\* 0.2 s to the delays after it, so delays increase strictly along the list.
C7_TitleElementList ==
    frame.stage = "title" =>
        LET els == frame.elements
            present == PresentFields
        IN  /\ Len(els) = Len(present)
            /\ \A j \in DOMAIN els :
                  /\ EndsWith(els[j].text, titleConfig[present[j]])
                  /\ els[j].delay =
                        4 * Cardinality({k \in 1..(j - 1) : present[k] \in HeadFields})
                        + 2 * Cardinality({k \in 1..(j - 1) : present[k] \notin HeadFields})
            /\ \A j \in DOMAIN els : j > 1 => els[j - 1].delay < els[j].delay

\* All six fields set: delays 0, 0.4, 0.8, 1.2, 1.4, 1.6 s.
C7_Witness ==
    /\ frame.stage = "title"
    /\ Len(frame.elements) = 6
    /\ frame.elements[4].delay = 12
    /\ frame.elements[6].delay = 16

\* ------------------------------------------- C8: elements enter in list order
\* Draw number j is the draw of element number j.
DrawOfElement(d, el) ==
    /\ d.fontSize = titleStyle.fontSize * el.fontSizeMult * 100
    /\ Len(d.text) <= Len(el.text)
    /\ d.text = SubSeq(el.text, 1, Len(d.text))

\* In a title frame the drawn elements are those whose delay is <= the time.
DrawnAreEntered ==
    frame.stage = "title" =>
        LET els == frame.elements
            n == Len(frame.draws)
        IN  /\ n <= Len(els)
            /\ \A j \in DOMAIN els : (els[j].delay <= currentTime) <=> (j <= n)
            /\ \A j \in 1..n : DrawOfElement(frame.draws[j], els[j])

\* Between two title frames of one configuration, the later in time draws at
\* least as many elements.
DrawnOnlyGrows ==
    (/\ titleConfig' = titleConfig
     /\ frame.stage = "title" /\ frame'.stage = "title"
     /\ currentTime' >= currentTime)
    => Len(frame'.draws) >= Len(frame.draws)

\* C8: in every title frame an element whose entry delay is greater than
\* currentTime is not drawn and every element whose delay is <= currentTime
\* is drawn, so the drawn elements are a prefix of the element list, and the
\* prefix only grows as currentTime increases.
C8_DrawnPrefix == []DrawnAreEntered /\ [][DrawnOnlyGrows]_vars

\* Six elements at 0.8 s: the third has just entered, three are waiting.
C8_Witness ==
    /\ frame.stage = "title"
    /\ Len(frame.elements) = 6
    /\ currentTime = 8
    /\ Len(frame.draws) = 3

\* ------------------------------------------------------ C9: title opacity
\* C9: in a title frame the opacity of every drawn element is exitAlpha times
\* the element's entry alpha: exitAlpha is 1 until the last second of the
\* sequence and then the time remaining over 1 s; the entry alpha is the
\* cubic ease-out of the element's first second (1 under the typewriter
\* effect, which reveals characters instead); the product lies in [0, 1].
\* With only the title set, duration 6 s and currentTime 5.6 s it is 0.4.
C9_TitleOpacity ==
    frame.stage = "title" =>
        /\ \A j \in DOMAIN frame.draws :
              LET a == frame.draws[j].alpha
                  remaining == titleConfig.duration - currentTime
                  exitN == IF remaining >= 10 THEN 10
                           ELSE IF remaining < 0 THEN 0 ELSE remaining
                  local == currentTime - frame.elements[j].delay
                  left == IF local >= 10 THEN 0 ELSE 10 - local
                  entryN == IF titleStyle.animationEffect = "typewriter" THEN 1000
                            ELSE 1000 - left * left * left
              IN  /\ a.d > 0
                  /\ a.n * 10 * 1000 = exitN * entryN * a.d
                  /\ 0 <= a.n /\ a.n <= a.d
        /\ (/\ PresentFields = <<"title">>
            /\ titleConfig.duration = 60
            /\ currentTime = 56)
           => /\ Len(frame.draws) = 1
              /\ frame.draws[1].alpha.n * 10 = 4 * frame.draws[1].alpha.d

\* The scenario: only the title, 6 s long, drawn at 5.6 s with opacity 0.4.
C9_Witness ==
    /\ frame.stage = "title"
    /\ PresentFields = <<"title">>
    /\ titleConfig.duration = 60
    /\ currentTime = 56
    /\ Len(frame.draws) = 1
    /\ frame.draws[1].alpha.n * 10 = 4 * frame.draws[1].alpha.d

\* ------------------------------------------- C10: when the title is drawn
\* C10: title elements are drawn in a frame only if the title configuration
\* is enabled and currentTime < its duration; at every currentTime >= the
\* duration, and whenever it is disabled, the frame has no title stage, no
\* element list and (without lyrics) no text draw, and it is dimmed with the
\* lyric style's overlay.
C10_TitleOnlyWhileActive ==
    LET active == titleConfig.enabled /\ currentTime < titleConfig.duration
    IN  /\ (frame.stage = "title" \/ frame.elements # <<>>) => active
        /\ (lrcLines = <<>> /\ frame.draws # <<>>) => active
        /\ ~active => /\ frame.stage # "title"
                      /\ frame.overlay = lyricStyle.bgOverlayOpacity

\* An enabled title at the moment its duration is reached: nothing is drawn.
C10_Witness ==
    /\ titleConfig.enabled
    /\ PresentFields # <<>>
    /\ currentTime = titleConfig.duration
    /\ frame.stage = "none"
    /\ frame.draws = <<>>

\* ------------------------------------------------ the lyrics under editing
\* Timestamps a line can carry: 0 s, 0.5 s, 1 s.
LineTimes == {0, 5, 10}

\* The text of line number i: "La", "Laa", "Laaa", ...
LineText(i) == [k \in 1..(i + 1) |-> IF k = 1 THEN "L" ELSE "a"]

\* Every list of up to MaxLines lines, in any order of timestamps: an .lrc
\* upload arrives sorted, the lyric editor saves the list as edited.
LineLists ==
    UNION {{[i \in 1..n |-> [time |-> ts[i], text |-> LineText(i)]] :
               ts \in [1..n -> LineTimes]} : n \in 0..MaxLines}

NoTitle == [DEFAULT_TITLE_CONFIG EXCEPT !.enabled = FALSE]

\* A project whose title sequence has been switched off.
InitLyric ==
    /\ backgrounds = <<>>
    /\ videoElements = NoVideos
    /\ lrcLines = <<>>
    /\ lyricStyle = DEFAULT_LYRIC_STYLE
    /\ titleStyle = DEFAULT_TITLE_STYLE
    /\ titleConfig = NoTitle
    /\ currentTime = 0
    /\ isPlaying = FALSE
    /\ audio = [src |-> TRUE, paused |-> TRUE, ended |-> FALSE, time |-> 0]
    /\ frame = RenderFrame(<<>>, NoVideos, <<>>, DEFAULT_LYRIC_STYLE,
                           DEFAULT_TITLE_STYLE, NoTitle, 0, FALSE)
    /\ recorder = NoRecorder
    /\ editor = NoEditor
    /\ transition = DEFAULT_TRANSITION
    /\ scene = Scene(<<>>, NoVideos, DEFAULT_TRANSITION, 0)
    /\ memo = NoMemo
    /\ lrcContent = <<>>
    /\ db = EmptyDatabase
    /\ dbCalls = NoCalls

\* Every 0.1 s around the line timestamps, and the moment a last line that
\* starts at 1 s reaches its assumed end.
LyricSeekTimes == (0..MaxLyricTime) \cup {10 + LastLineDuration}

NextLyric ==
    \/ \E lines \in LineLists : SetLrcLines(lines)
    \/ \E e \in LyricEffects : SetLyricEffect(e)
    \/ \E t \in LyricSeekTimes : HandleSeek(t)

SpecLyric == InitLyric /\ [][NextLyric]_vars

\* ------------------------------------------------- C5: the active lyric line
\* The lines are ordered ascending by time.
LinesAscending ==
    \A i \in DOMAIN lrcLines : i > 1 => lrcLines[i - 1].time <= lrcLines[i].time

\* The lines that have started and whose successor, if any, has not.
StartedNotSucceeded ==
    {i \in DOMAIN lrcLines :
        /\ lrcLines[i].time <= currentTime
        /\ (i = Len(lrcLines) \/ lrcLines[i + 1].time > currentTime)}

\* C5: for lines ordered ascending by time, the active line of a lyric frame
\* is the line i with lines[i].time <= currentTime and (i last or
\* lines[i+1].time > currentTime); at most one line satisfies this; the last
\* line is active at every time at or after its timestamp; among lines
\* sharing one timestamp the last of them is the active one.
C5_ActiveLine ==
    (LinesAscending /\ frame.stage = "lyric") =>
        LET a == frame.activeIndex
            n == Len(lrcLines)
        IN  /\ Cardinality(StartedNotSucceeded) <= 1
            /\ StartedNotSucceeded = IF a = 0 THEN {} ELSE {a}
            /\ currentTime >= lrcLines[n].time => a = n
            /\ a # 0 => \A j \in DOMAIN lrcLines :
                           lrcLines[j].time = lrcLines[a].time => j <= a

\* Two lines share 0.5 s, a third follows at 1 s: at 0.6 s the second of the
\* pair is active.
C5_Witness ==
    /\ frame.stage = "lyric"
    /\ Len(lrcLines) = 3
    /\ lrcLines[1].time = 5 /\ lrcLines[2].time = 5 /\ lrcLines[3].time = 10
    /\ currentTime = 6
    /\ frame.activeIndex = 2

\* ------------------------------------------------ C6: the intro placeholder
\* The frame's text is the intro: a preview of the first line and "...".
IntroDrawn ==
    /\ Len(frame.draws) = 2
    /\ frame.draws[1].text = lrcLines[1].text
    /\ frame.draws[1].fontSize = lyricStyle.fontSize * 800
    /\ frame.draws[2].text = <<".", ".", ".">>

\* The frame's first draw is the active line (or the part of it typed so far).
ActiveLineDrawn ==
    /\ frame.activeIndex # 0
    /\ Len(frame.draws) >= 1
    /\ Len(frame.draws[1].text) <= Len(lrcLines[frame.activeIndex].text)
    /\ frame.draws[1].text = SubSeq(lrcLines[frame.activeIndex].text, 1,
                                    Len(frame.draws[1].text))
    /\ frame.draws[1].fontSize = lyricStyle.fontSize * 1000

\* C6: for a non-empty lyric list ordered ascending by time, in a frame
\* without the title sequence, no line is active exactly when currentTime is
\* before the first line's time, and exactly then the intro placeholder is
\* drawn; so every such frame draws an active line or the placeholder.
C6_IntroPlaceholder ==
    (LinesAscending /\ frame.stage = "lyric") =>
        /\ (frame.activeIndex = 0) <=> (currentTime < lrcLines[1].time)
        /\ IntroDrawn <=> (currentTime < lrcLines[1].time)
        /\ ActiveLineDrawn <=> ~(currentTime < lrcLines[1].time)
        /\ frame.draws # <<>>

\* One line at 1 s, the frame at 0.8 s: the placeholder.
C6_Witness ==
    /\ frame.stage = "lyric"
    /\ Len(lrcLines) = 1
    /\ lrcLines[1].time = 10
    /\ currentTime = 8
    /\ frame.activeIndex = 0
    /\ IntroDrawn

\* --------------------------------------------- rendering under everything
\* 0 s and 1.5 s
RenderSeekTimes == {0, 15}

OneLine == <<[time |-> 10, text |-> LineText(1)]>>

\* From the freshly opened application: audio, then a video and an image
\* uploaded together; the video's metadata arrives later; seeking, playing,
\* lyrics and the title switch around it.
\* The title sequence with a title, switched on or off.
RenderTitleConfigs ==
    {[DEFAULT_TITLE_CONFIG EXCEPT !.title = TestTitle, !.enabled = en] :
        en \in BOOLEAN}

NextRender ==
    \/ HandleAudioUpload
    \/ HandleBackgroundUpload(<<"video", "image">>)
    \/ \E src \in DOMAIN videoElements : VideoLoadedMetadata(src, Num(20))
    \/ \E t \in RenderSeekTimes : HandleSeek(t)
    \/ TogglePlay
    \/ AnimationFrame(15)
    \/ SetLrcLines(OneLine)
    \/ \E cfg \in RenderTitleConfigs : SaveTitleConfig(cfg)
    \/ Redraw

SpecRender == InitApp /\ [][NextRender]_vars

\* ------------------------------------ C2: a frame is a function of its inputs
\* The current frame was given what the remembered pass was given.
SameInputs == memo.set /\ memo.inputs = RenderInputs

\* A step that changes neither the inputs of rendering nor the media nor the
\* playing state (a render pass and nothing else) changes, of the video
\* elements, only playback position and paused flag.
RenderTouchesPlaybackOnly ==
    (/\ RenderInputs' = RenderInputs
     /\ MediaDurations' = MediaDurations
     /\ isPlaying' = isPlaying)
    => /\ DOMAIN videoElements' = DOMAIN videoElements
       /\ \A s \in DOMAIN videoElements :
             [videoElements'[s] EXCEPT !.currentTime = 0, !.paused = TRUE]
             = [videoElements[s] EXCEPT !.currentTime = 0, !.paused = TRUE]

TypewriterFrame ==
    /\ frame.stage = "lyric"
    /\ frame.activeIndex # 0
    /\ lyricStyle.animationEffect = "typewriter"

\* The number of characters of the active line the frame shows.
ShownChars(f) == Len(f.draws[1].text)

\* The count is floor(len * min(1, elapsed / min(segmentDuration * 0.8, 2)))
\* and the text drawn is that prefix of the line.
TypewriterCount ==
    TypewriterFrame =>
        LET a == frame.activeIndex
            text == lrcLines[a].text
            next == IF a < Len(lrcLines) /\ lrcLines[a + 1].time # 0
                    THEN lrcLines[a + 1].time ELSE lrcLines[a].time + 50
            segment == next - lrcLines[a].time
            \* elapsed and type duration in hundredths of a second
            elapsed == 10 * (currentTime - lrcLines[a].time)
            typing == IF 8 * segment < 200 THEN 8 * segment ELSE 200
            count == IF elapsed >= typing THEN Len(text)
                     ELSE (Len(text) * elapsed) \div typing
        IN  /\ ShownChars(frame) = count
            /\ 0 <= ShownChars(frame) /\ ShownChars(frame) <= Len(text)
            /\ frame.draws[1].text = SubSeq(text, 1, count)

\* While the same line of the same list stays active, a later frame shows at
\* least as many characters.
TypewriterGrows ==
    (/\ TypewriterFrame /\ TypewriterFrame'
     /\ lrcLines' = lrcLines
     /\ frame'.activeIndex = frame.activeIndex
     /\ currentTime' >= currentTime)
    => ShownChars(frame') >= ShownChars(frame)

\* C11: with the lyric typewriter effect the number of visible characters is
\* floor(len(text) * min(1, elapsed / min(segmentDuration * 0.8, 2))), lies
\* between 0 and the length of the line's text, and never decreases as
\* currentTime increases while one line stays active.
C11_TypewriterCount == []TypewriterCount /\ [][TypewriterGrows]_vars

\* A line half typed: some of its characters, not all.
C11_Witness ==
    /\ TypewriterFrame
    /\ currentTime > lrcLines[frame.activeIndex].time
    /\ 0 < ShownChars(frame)
    /\ ShownChars(frame) < Len(lrcLines[frame.activeIndex].text)

\* ---------------------------------------------------- C12: the karaoke clip
\* A lyric frame that draws an active line with the karaoke effect.
KaraokeFrame ==
    /\ frame.stage = "lyric"
    /\ frame.activeIndex # 0
    /\ lyricStyle.animationEffect = "karaoke"

\* The clip of the frame's highlighted pass.
ClipOf(f) == f.draws[2].clip[1]

\* The measured width of the active line's text.
ActiveTextWidth ==
    MeasureText(lrcLines[frame.activeIndex].text, lyricStyle.fontSize * PxUnit)

\* The clip starts at the text's left edge and is progress times the text
\* width wide, progress being elapsed / segment duration clamped to [0, 1].
KaraokeClipWidth ==
    KaraokeFrame =>
        LET a == frame.activeIndex
            next == IF a < Len(lrcLines) /\ lrcLines[a + 1].time # 0
                    THEN lrcLines[a + 1].time ELSE lrcLines[a].time + 50
            segment == next - lrcLines[a].time
            elapsed == currentTime - lrcLines[a].time
            done == IF elapsed > segment THEN segment ELSE elapsed
            w == ClipOf(frame).width
        IN  /\ Len(frame.draws) >= 2
            /\ frame.draws[1].clip = <<>>
            /\ frame.draws[1].color = lyricStyle.fontColor
            /\ frame.draws[2].color = lyricStyle.activeColor
            /\ ClipOf(frame).left = frame.draws[2].x - ActiveTextWidth \div 2
            /\ w.d > 0
            /\ w.n * segment = ActiveTextWidth * done * w.d
            /\ elapsed = 0 => w.n = 0
            /\ elapsed >= segment => w.n = ActiveTextWidth * w.d
            /\ 0 <= w.n /\ w.n <= ActiveTextWidth * w.d

\* While the same line of the same list stays active, a later frame has a
\* clip at least as wide.
KaraokeClipGrows ==
    (/\ KaraokeFrame /\ KaraokeFrame'
     /\ lrcLines' = lrcLines
     /\ frame'.activeIndex = frame.activeIndex
     /\ currentTime' >= currentTime)
    => ClipOf(frame').width.n * ClipOf(frame).width.d
       >= ClipOf(frame).width.n * ClipOf(frame').width.d

\* C12: with the karaoke effect the clip rectangle is measuredTextWidth *
\* progress wide: 0 at progress 0, the full text width at progress 1, never
\* narrower as progress increases; its left edge is the text's left edge,
\* x - textWidth / 2.
C12_KaraokeClip == []KaraokeClipWidth /\ [][KaraokeClipGrows]_vars

\* The last line at the end of its assumed 5 s: the clip spans the text.
C12_Witness ==
    /\ KaraokeFrame
    /\ frame.activeIndex = Len(lrcLines)
    /\ currentTime = lrcLines[frame.activeIndex].time + 50
    /\ ClipOf(frame).width.n = ActiveTextWidth * ClipOf(frame).width.d
    /\ ActiveTextWidth > 0


\* ------------------------------------------ C13: successor and time left
\* The cycle total and the loop time, taken from the playlist the frame
\* was built from.
CycleTotal == frame.playlist[Len(frame.playlist)].end
CycleTime == currentTime % CycleTotal

\* C13: for the current segment i of an N-item playlist the scheduler also
\* resolves next = segment (i+1) mod N, so that the successor of the last
\* item is the first item, and timeRemainingInCurrent = end_i - loopTime,
\* which is more than 0 and at most effectiveDuration_i.
C13_NextAndTimeRemaining ==
    scene.current # 0 =>
        LET n == Len(frame.playlist)
            i == scene.current
        IN  /\ i = frame.bg.idx
            /\ scene.next = (IF i = n THEN 1 ELSE i + 1)
            /\ scene.timeRemaining = frame.playlist[i].end - CycleTime
            /\ scene.timeRemaining > 0
            /\ scene.timeRemaining <= frame.playlist[i].effectiveDuration

\* The last of two segments is the current one, part-way through, and its
\* successor is the first.
C13_Witness ==
    /\ Len(backgrounds) = 2
    /\ scene.current = 2
    /\ scene.next = 1
    /\ scene.timeRemaining > 0
    /\ scene.timeRemaining < frame.playlist[2].effectiveDuration


\* ------------------------------------------------ C14: transition window
\* Lead times on offer: none and 1.5 s.
TransitionDurations == {0, 15}
\* Item durations on offer: automatic and 1 s.
TransitionItemDurations == {0, 10}

\* A playlist built by uploads and duration edits, under every transition
\* setting, sought through its cycle.
NextTransition ==
    \/ \E files \in FileLists : HandleBackgroundUpload(files)
    \/ \E id \in 1..MaxBg, dur \in TransitionItemDurations :
          UpdateBackgroundDuration(id, dur)
    \/ \E src \in DOMAIN videoElements, d \in IntrinsicDurations :
          VideoLoadedMetadata(src, d)
    \/ \E e \in TransitionEffects, d \in TransitionDurations : SetTransition(e, d)
    \/ \E t \in LoopSeekTimes : HandleSeek(t)

SpecTransition == InitLoaded /\ [][NextTransition]_vars

\* The frame falls in the last transitionDuration of the segment drawCanvas
\* chose, the playlist has a second segment, and an effect is set.
WindowOpen ==
    /\ frame.bg.idx # 0
    /\ frame.playlist[frame.bg.idx].end - CycleTime <= transition.duration
    /\ Len(backgrounds) > 1
    /\ transition.effect # "none"

\* The chosen segment alone, fully opaque, not enlarged, not blended.
CurrentOnly ==
    IF frame.bg.idx = 0 THEN <<>>
    ELSE <<[segment |-> frame.bg.idx, opacity |-> One, scale |-> One,
            blend |-> "source-over", shakeAt |-> <<>>]>>

\* C14: the background transition is active in a frame exactly when
\* timeRemaining <= transitionDuration, the playlist has more than one
\* segment and the effect is not NONE; in every other frame, every frame
\* of a single-item playlist with an effect set included, only the current
\* segment is drawn, fully opaque, and no next segment is blended in.
C14_TransitionWindow ==
    /\ scene.active <=> WindowOpen
    /\ ~WindowOpen => scene.layers = CurrentOnly
    /\ Len(backgrounds) = 1 => \A k \in DOMAIN scene.layers :
                                  scene.layers[k] = CurrentOnly[1]

\* A crossfade under way: the next segment is drawn over the current one,
\* partly opaque.
C14_Witness ==
    /\ WindowOpen
    /\ transition.effect = "crossfade"
    /\ Len(scene.layers) = 2
    /\ scene.layers[2].segment = scene.next
    /\ scene.layers[2].segment # scene.layers[1].segment
    /\ scene.layers[2].opacity.n > 0
    /\ scene.layers[2].opacity.n < scene.layers[2].opacity.d


\* ---------------------------------------------- C15: media not ready yet
\* The item of the segment the frame chose.
CurrentItem == backgrounds[frame.bg.idx]

\* The chosen segment is a video and its element, if there is one, has no
\* decoded frame to give (videoWidth 0).
VideoNotReady ==
    /\ frame.bg.idx # 0
    /\ CurrentItem.type = "video"
    /\ (CurrentItem.src \in DOMAIN videoElements =>
           videoElements[CurrentItem.src].videoWidth = 0)

\* The chosen segment is a video whose element has a decoded frame.
VideoReady ==
    /\ frame.bg.idx # 0
    /\ CurrentItem.type = "video"
    /\ CurrentItem.src \in DOMAIN videoElements
    /\ videoElements[CurrentItem.src].videoWidth # 0

\* The dim overlay and the text of the active stage are on the canvas.
RestOfFrameDrawn ==
    /\ frame.overlay = (IF titleConfig.enabled /\ currentTime < titleConfig.duration
                        THEN titleStyle.bgOverlayOpacity
                        ELSE lyricStyle.bgOverlayOpacity)
    /\ frame.stage = "title" => Len(frame.draws) = Len(frame.elements)
                                /\ Len(frame.draws) > 0

\* C15: when the media of the chosen segment reports zero width (image not
\* loaded, video not decoded, no video element cached), the layer is
\* skipped for this frame, the overlay and the text are drawn all the same,
\* and readiness is looked at afresh by every pass: a video segment is
\* drawn in exactly the frames in which its element has a width.
C15_SkipUnreadyMedia ==
    /\ VideoNotReady => ~frame.bg.drawn
    /\ VideoReady => frame.bg.drawn
    /\ (frame.bg.idx # 0 /\ ~frame.bg.drawn) => RestOfFrameDrawn

\* A video segment whose metadata has not arrived: skipped, with the title
\* on the canvas.
C15_Witness ==
    /\ VideoNotReady
    /\ ~frame.bg.drawn
    /\ frame.stage = "title"
    /\ Len(frame.draws) > 0


\* ------------------------------------------ C16: unknown video duration
\* What a video file's metadata can report: a length, no length (0), or a
\* stream without an end.
ReportedDurations == IntrinsicDurations \cup {Num(0)}
DurationSeekTimes == {0, 15}

\* Videos and images uploaded, their durations edited, metadata arriving.
NextDurations ==
    \/ \E files \in FileLists : HandleBackgroundUpload(files)
    \/ \E id \in 1..MaxBg, dur \in DurationInputs : UpdateBackgroundDuration(id, dur)
    \/ \E src \in DOMAIN videoElements, d \in ReportedDurations :
          VideoLoadedMetadata(src, d)
    \/ \E t \in DurationSeekTimes : HandleSeek(t)

SpecDurations == InitLoaded /\ [][NextDurations]_vars

\* Item i is a video left on automatic duration.
AutoVideo(i) == backgrounds[i].type = "video" /\ backgrounds[i].duration = 0

\* The effective durations of the items before item i, added up.
RECURSIVE DurationsBefore(_)
DurationsBefore(i) ==
    IF i = 1 THEN 0
    ELSE DurationsBefore(i - 1) + frame.playlist[i - 1].effectiveDuration

\* An automatic video without a usable intrinsic length gets 10 s, one with
\* a known length gets that length, and the segment bounds are the sums of
\* the durations.
AutoVideoDuration ==
    \A i \in DOMAIN frame.playlist :
        /\ AutoVideo(i) =>
              frame.playlist[i].effectiveDuration =
                 IF IntrinsicDurationKnown(backgrounds[i])
                 THEN videoElements[backgrounds[i].src].duration.v
                 ELSE 100
        /\ frame.playlist[i].start = DurationsBefore(i)
        /\ frame.playlist[i].end =
              DurationsBefore(i) + frame.playlist[i].effectiveDuration

\* The frame that follows the arrival of the metadata uses the length it
\* gave.
KnownDurationTakesOver ==
    \A i \in DOMAIN backgrounds :
        (/\ AutoVideo(i)
         /\ ~IntrinsicDurationKnown(backgrounds[i])
         /\ backgrounds' = backgrounds
         /\ videoElements'[backgrounds[i].src].duration.k = "num"
         /\ videoElements'[backgrounds[i].src].duration.v # 0)
        => frame'.playlist[i].effectiveDuration =
              videoElements'[backgrounds[i].src].duration.v

\* C16: for a video item whose user duration is 0 (auto), a missing, NaN,
\* zero or infinite intrinsic duration yields effectiveDuration 10 s, so
\* that the cycle total and every segment bound stay finite numbers; once
\* the intrinsic duration is known, the next frame uses it instead.
C16_AutoVideoFallback == []AutoVideoDuration /\ [][KnownDurationTakesOver]_vars

\* Two automatic videos: one whose metadata reported no usable length, on
\* the fallback, and one on its own length.
C16_Witness ==
    /\ \E i \in DOMAIN backgrounds :
          /\ AutoVideo(i)
          /\ videoElements[backgrounds[i].src].duration \in {Num(0), InfiniteDuration}
          /\ frame.playlist[i].effectiveDuration = 100
    /\ \E i \in DOMAIN backgrounds :
          /\ AutoVideo(i)
          /\ IntrinsicDurationKnown(backgrounds[i])
          /\ frame.playlist[i].effectiveDuration = 20


\* ------------------------------------------- C17: nothing to cycle through
\* The playlist is empty, or its items add up to no time at all.
DegenerateTimeline ==
    Len(backgrounds) = 0 \/ CycleTotal = 0

\* C17: if the background list is empty or totalCycleDuration is 0, no
\* loopTime is computed and no background layer is drawn (the black fill
\* stays), and the overlay and the text are rendered as usual.
C17_DegenerateTimeline ==
    DegenerateTimeline => frame.bg = NoBackground /\ RestOfFrameDrawn

\* Items in the list that add up to 0 s: no segment chosen, the title drawn.
C17_Witness ==
    /\ Len(backgrounds) > 0
    /\ CycleTotal = 0
    /\ frame.bg.idx = 0
    /\ ~frame.bg.drawn
    /\ frame.stage = "title"
    /\ Len(frame.draws) > 0


\* --------------------------------------- C18: a pass leaves its inputs alone
EffectSeekTimes == {0, 5, 12, 20, 35}
\* The title sequence with a title, for 3 s, switched on or off.
EffectTitleConfigs ==
    {[DEFAULT_TITLE_CONFIG EXCEPT !.title = TestTitle, !.duration = 30,
                                  !.enabled = en] : en \in BOOLEAN}

\* Every effect of both stages, over a background, a lyric line and a title.
NextEffects ==
    \/ HandleBackgroundUpload(<<"image">>)
    \/ SetLrcLines(OneLine)
    \/ \E cfg \in EffectTitleConfigs : SaveTitleConfig(cfg)
    \/ \E e \in LyricEffects : SetLyricEffect(e)
    \/ \E e \in TitleEffects : SetTitleEffect(e)
    \/ \E t \in EffectSeekTimes : HandleSeek(t)

SpecEffects == InitLoaded /\ [][NextEffects]_vars

RecordingSeekTimes == {0, 15}

\* Playing, seeking and recording over a video background, with the audio
\* running to its end or replaced by another file.
NextRecording ==
    \/ HandleAudioUpload
    \/ HandleBackgroundUpload(<<"video">>)
    \/ TogglePlay
    \/ \E t \in RecordingSeekTimes : HandleSeek(t)
    \/ StartRecording
    \/ StopRecording
    \/ AudioEnded
    \/ RecorderStopEvents

SpecRecording == InitLoaded /\ [][NextRecording]_vars

\* The audio ends during a recording: afterwards isRecording is false, the
\* recorder is stopped with its events queued, and isPlaying is false.
EndedStopsRecording ==
    (audio'.ended /\ ~audio.ended /\ recorder.isRecording)
    => /\ ~recorder'.isRecording
       /\ recorder'.state = "inactive"
       /\ recorder'.pending = recorder.pending + 1
       /\ ~isPlaying'

\* A recorder has been started: the audio plays, isPlaying and isRecording
\* are true.
StartLeavesRecording ==
    recorder'.started > recorder.started
    => /\ isPlaying'
       /\ ~audio'.paused
       /\ recorder'.isRecording
       /\ recorder'.state = "recording"

\* Every recorder started is recording, stopped with its file still to
\* come, or saved; a saved file holds data, and chunksRef is empty again.
StoppedIsSaved ==
    /\ recorder.started = Len(recorder.downloads) + recorder.pending
                          + (IF recorder.state = "recording" THEN 1 ELSE 0)
    /\ \A k \in DOMAIN recorder.downloads : recorder.downloads[k] = 1
    /\ recorder.chunks = 0

\* C19: if the audio reaches its end while a recording is in progress, the
\* recording is stopped automatically: after the ended event isRecording
\* is false, the recorder has been stopped (which brings the .webm download
\* and clears the collected chunks) and isPlaying is false; startRecording
\* always leaves playback running and isRecording true.
C19_EndedStopsRecording ==
    []StoppedIsSaved /\ [][EndedStopsRecording /\ StartLeavesRecording]_vars


\* ------------------------------------------------ C20: AI translation
\* The lyrics the editor is opened with: a line and an instrumental break.
SourceLines == <<[time |-> 5, text |-> LineText(1)], [time |-> 10, text |-> <<>>]>>

\* What the model may return for a line: blanks, the line itself in other
\* case, a translation with blanks around it, null, a number.
TranslationValues ==
    {Str(<<" ">>), Str(<<"l", "A">>), Str(<<" ", "b">>), NullValue, NumberValue}

\* The answers to a request: failures, arrays of up to as many elements
\* as can be sent, and an array of one more.
Responses ==
    {[k |-> kind, translations |-> <<>>] :
        kind \in {"rejected", "unparsable", "no_array"}}
    \cup UNION {{[k |-> "array", translations |-> tr] :
                    tr \in [1..n -> TranslationValues]} : n \in 0..MaxSourceLines}
    \cup {[k |-> "array",
           translations |-> [i \in 1..(MaxSourceLines + 1) |-> Str(<<" ", "b">>)]]}

\* Text typed into a row.
TypedTexts == {<<"b">>}

\* The editor opened on uploaded lyrics; the first row retyped, a row added
\* under it, one of the first rows deleted, also while a translation
\* request is under way.
NextTranslate ==
    \/ SetLrcLines(SourceLines)
    \/ OpenLyricEditor
    \/ \E t \in TypedTexts : UpdateLineText(1, t)
    \/ InsertLineAfter(1)
    \/ \E i \in 1..MaxSourceLines : DeleteLine(i)
    \/ HandleAiTranslate
    \/ \E resp \in Responses : ResponseArrives(resp)
    \/ TranslateResponse

SpecTranslate == InitLoaded /\ [][NextTranslate]_vars

\* result lists the lines of sent in their order, each followed by at most
\* one line that is new (not among the old objects) and has its time.
RECURSIVE Bilingual(_, _, _, _)
Bilingual(result, sent, heap, old) ==
    IF sent = <<>> THEN result = <<>>
    ELSE /\ result # <<>>
         /\ Head(result) = Head(sent)
         /\ \/ Bilingual(Tail(result), Tail(sent), heap, old)
            \/ /\ Len(result) >= 2
               /\ result[2] > old
               /\ heap[result[2]].time = heap[Head(sent)].time
               /\ Bilingual(Tail(Tail(result)), Tail(sent), heap, old)

\* The answer is one the handler merges: an array of as many strings or
\* nulls as lines were sent.
Mergeable(resp, sent) ==
    /\ resp.k = "array"
    /\ Len(resp.translations) = Len(sent)
    /\ \A k \in DOMAIN resp.translations : resp.translations[k].k # "number"

\* The step that handles the answer to a request.
TranslationSettles ==
    (editor.request # <<>> /\ editor'.request = <<>>)
    => /\ ~editor'.isTranslating
       /\ IF Mergeable(editor.response[1], editor.request[1])
          THEN /\ Bilingual(editor'.lines, editor.request[1], editor'.heap,
                            Len(editor.heap))
               /\ SubSeq(editor'.heap, 1, Len(editor.heap)) = editor.heap
          ELSE editor'.lines = editor.lines /\ editor'.heap = editor.heap

\* isTranslating is set exactly while a request is under way.
TranslatingWhileRequested == editor.isTranslating <=> editor.request # <<>>

\* C20: after a successful AI translation the line list consists of the
\* original lines in their original order, each optionally followed by one
\* translation line with the timestamp of the original it follows; if the
\* returned count differs from the number of lines, or the request or the
\* parsing fails, the list is left unchanged; isTranslating is false again
\* in every case.
C20_BilingualMerge == []TranslatingWhileRequested /\ [][TranslationSettles]_vars

\* Two lines translated: the first has got its translation line, with its
\* timestamp and trimmed; the second, answered with blanks, has none.
C20_Witness ==
    /\ ~editor.isTranslating
    /\ Len(editor.lines) = 3
    /\ editor.heap[editor.lines[2]] =
          [time |-> editor.heap[editor.lines[1]].time, text |-> <<"b">>]
    /\ editor.heap[editor.lines[1]].text = LineText(1)
    /\ editor.heap[editor.lines[3]].time = 10

\* ------------------------------------------------------- C21: parseLrc
\* Lines of .lrc files, character by character, each with what the format
\* says of it: whether it has a tag and text, its time in milliseconds
\* (minutes * 60 + seconds + fraction) and its text.
LrcSampleLines ==
    { [raw |-> <<"[", "0", "0", ":", "0", "5", ".", "5", "0", "]", "a">>,
       kept |-> TRUE, time |-> 5500, text |-> <<"a">>],
      [raw |-> <<"[", "0", "0", ":", "0", "5", ".", "5", "0", "0", "]", "b">>,
       kept |-> TRUE, time |-> 5500, text |-> <<"b">>],
      [raw |-> <<"[", "0", "1", ":", "0", "0", ".", "0", "5", "]", " ", "a", "\r">>,
       kept |-> TRUE, time |-> 60050, text |-> <<"a">>],
      [raw |-> <<"[", "0", "0", ":", "0", "0", ".", "0", "0", "]", "b">>,
       kept |-> TRUE, time |-> 0, text |-> <<"b">>],
      [raw |-> <<"a", "[", "0", "0", ":", "7", "5", ".", "1", "2", "3", "]", "b">>,
       kept |-> TRUE, time |-> 75123, text |-> <<"a", "b">>],
      [raw |-> <<"a">>,
       kept |-> FALSE, time |-> 0, text |-> <<>>],
      [raw |-> <<"[", "0", "0", ":", "0", "5", ".", "5", "0", "]", " ", "\r">>,
       kept |-> FALSE, time |-> 0, text |-> <<>>],
      [raw |-> <<"[", "0", ":", "0", "5", ".", "5", "]", "a">>,
       kept |-> FALSE, time |-> 0, text |-> <<>>] }

LrcFiles == UNION {[1..n -> LrcSampleLines] : n \in 0..MaxLrcLines}

\* The text of a file: its lines with a newline between them.
RECURSIVE JoinLines(_)
JoinLines(file) ==
    IF file = <<>> THEN <<>>
    ELSE IF Len(file) = 1 THEN file[1].raw
    ELSE file[1].raw \o <<"\n">> \o JoinLines(Tail(file))

NextLrc ==
    \E file \in LrcFiles : HandleLrcUpload(JoinLines(file))

SpecLrc == InitLoaded /\ [][NextLrc]_vars

\* The lines of a file that have a tag and text, as the format reads them.
TaggedLines(file) ==
    LET kept == SelectSeq(file, LAMBDA l : l.kept)
    IN  [i \in DOMAIN kept |-> [time |-> kept[i].time, text |-> kept[i].text]]

AtTime(lines, t) == SelectSeq(lines, LAMBDA l : l.time = t)

\* C21: parseLrc returns the lines that have a tag and non-empty text, and
\* only these, each with the time of its tag; they are ascending by time,
\* and the lines of one timestamp are in the order they have in the file.
\* The application's lyric lines are the lines returned.
C21_ParseLrcOrdered ==
    \A file \in LrcFiles :
        JoinLines(file) = lrcContent =>
            LET result == ParseLrc(lrcContent)
                tagged == TaggedLines(file)
            IN  /\ Len(result) = Len(tagged)
                /\ \A i \in DOMAIN result : result[i].text # <<>>
                /\ \A i \in DOMAIN result :
                      i > 1 => result[i - 1].time <= result[i].time
                /\ \A i \in DOMAIN tagged :
                      AtTime(result, tagged[i].time) = AtTime(tagged, tagged[i].time)
                /\ lrcLines = OnFrameGrid(result)

\* A file of three lines was loaded: an untagged line was dropped, and of
\* the two lines kept, which have one timestamp, "b" stood first.
C21_Witness ==
    /\ Len(SplitLines(lrcContent, <<>>)) = 3
    /\ Len(lrcLines) = 2
    /\ lrcLines[1].time = lrcLines[2].time
    /\ lrcLines[1].text = <<"b">>
    /\ lrcLines[2].text = <<"a">>
    /\ frame.time = currentTime

\* ------------------------------------------- C22: the video's pointer
SyncSeekTimes == {0, 2, 19, 21, 27}
SyncFileLists == {<<"video">>, <<"image", "video">>}

NextVideoSync ==
    \/ \E files \in SyncFileLists : HandleBackgroundUpload(files)
    \/ \E src \in DOMAIN videoElements, d \in ReportedDurations :
          VideoLoadedMetadata(src, d)
    \/ \E id \in BgIds : UpdateBackgroundDuration(id, 50)
    \/ \E t \in SyncSeekTimes : HandleSeek(t)
    \/ TogglePlay
    \/ AnimationFrame(4)

SpecVideoSync == InitLoaded /\ [][NextVideoSync]_vars

\* The frame shows a video segment.
VideoSegment(f, bgs) == f.bg.idx # 0 /\ bgs[f.bg.idx].type = "video"

\* Where the video of the frame's segment should stand: the time into the
\* segment, wrapped by the video's length, or by 1 s while the length is
\* not a known finite number.
TargetPointer(f, bgs, vids) ==
    LET seg == f.playlist[f.bg.idx]
        d == vids[bgs[f.bg.idx].src].duration
        sinceStart == f.bg.loopTime - seg.start
    IN  IF d.k = "num" /\ d.v > 0 THEN sinceStart % d.v ELSE sinceStart % 10

\* The pointer of an element when the pass finds it: as the state before
\* has it, or 0 for an element the step has just made.
PointerFound(src) ==
    IF src \in DOMAIN videoElements THEN videoElements[src].currentTime ELSE 0

\* One step: the pass writes the pointer of the segment's video when it is
\* more than 0.3 s off the target, and leaves it as it found it otherwise.
PointerCorrectedOnDrift ==
    VideoSegment(frame', backgrounds') =>
        LET src == backgrounds'[frame'.bg.idx].src
            target == TargetPointer(frame', backgrounds', videoElements')
            found == PointerFound(src)
            off == IF found > target THEN found - target ELSE target - found
        IN  videoElements'[src].currentTime = IF off > 3 THEN target ELSE found

PointerNearTarget ==
    VideoSegment(frame, backgrounds) =>
        LET at == videoElements[backgrounds[frame.bg.idx].src].currentTime
            target == TargetPointer(frame, backgrounds, videoElements)
        IN  at - target <= 3 /\ target - at <= 3

\* C22: for a video segment the target pointer is the time into the
\* segment modulo the video's length (modulo 1 s without a known finite
\* length); the pass sets the element's pointer to the target only when it
\* is more than 0.3 s off and leaves it unchanged otherwise, so that after
\* every pass the pointer is within 0.3 s of the target.
C22_PointerDrift == []PointerNearTarget /\ [][PointerCorrectedOnDrift]_vars

\* A video of known length is on screen past its first run-through, and
\* its pointer has been left 0.1 s or more off the target.
C22_Witness ==
    /\ VideoSegment(frame, backgrounds)
    /\ videoElements[backgrounds[frame.bg.idx].src].duration = Num(20)
    /\ frame.bg.localTime > 20
    /\ videoElements[backgrounds[frame.bg.idx].src].currentTime
          # TargetPointer(frame, backgrounds, videoElements)

\* ------------------------------------------ C23: the length of a lyric segment
\* C23: while a line is active its segment duration is positive: the next
\* line's time minus its own, or 5 s for the last line; the progress is
\* the elapsed time over that duration, cut to [0, 1].
C23_SegmentDurationPositive ==
    frame.activeIndex # 0 =>
        LET a == frame.activeIndex
            duration == SegmentDuration(lrcLines, a)
            progress == LineProgress(lrcLines, a, currentTime)
            elapsed == currentTime - lrcLines[a].time
        IN  /\ duration > 0
            /\ duration = IF a < Len(lrcLines)
                          THEN lrcLines[a + 1].time - lrcLines[a].time
                          ELSE 50
            /\ elapsed >= 0
            /\ progress.d > 0
            /\ progress.n * duration
                 = (IF elapsed > duration THEN duration ELSE elapsed) * progress.d
            /\ 0 <= progress.n /\ progress.n <= progress.d

\* Part of the way through a line that has a successor, in a list that
\* also holds a line at time 0 further down.
C23_Witness ==
    /\ frame.activeIndex # 0
    /\ frame.activeIndex < Len(lrcLines)
    /\ currentTime > lrcLines[frame.activeIndex].time
    /\ lrcLines[Len(lrcLines)].time = 0
    /\ frame.draws # <<>>

\* ------------------------------------------ the playlist and its video cache
PlaylistIds == 1..(MaxPlaylist + 1)
PlaylistSeekTimes == {0, 60}

NextBackgrounds ==
    \/ \E files \in FileLists : HandleBackgroundUpload(files)
    \/ \E id \in PlaylistIds : DuplicateWithin(id, MaxPlaylist)
    \/ \E id \in PlaylistIds : RemoveBackground(id)
    \/ \E t \in PlaylistSeekTimes : HandleSeek(t)

SpecBackgrounds == InitLoaded /\ [][NextBackgrounds]_vars

\* ---------------------------------------------- C24: duplicating an item
\* backgrounds' is backgrounds with one copy of the item id added at the end.
CopyAtEnd(id) ==
    \E i \in DOMAIN backgrounds :
        /\ backgrounds[i].id = id
        /\ Len(backgrounds') = Len(backgrounds) + 1
        /\ SubSeq(backgrounds', 1, Len(backgrounds)) = backgrounds
        /\ LET copy == backgrounds'[Len(backgrounds')]
           IN  /\ copy.id \notin UsedIds(backgrounds)
               /\ copy.type = backgrounds[i].type
               /\ copy.src = backgrounds[i].src
               /\ copy.file = backgrounds[i].file
               /\ copy.duration = backgrounds[i].duration

\* C24: duplicating an item adds one copy with a new id and the same type,
\* src, file and duration at the end of the playlist, the items there keep
\* their order; duplicating an id that is not in the list changes nothing.
C24_DuplicateAtEnd ==
    [][\A id \in PlaylistIds :
          DuplicateWithin(id, MaxPlaylist) =>
              IF id \in UsedIds(backgrounds) THEN CopyAtEnd(id)
              ELSE backgrounds' = backgrounds]_vars

\* ------------------------------------------------ C25: the video cache
VideoSrcs(bgs) == {bgs[i].src : i \in {j \in DOMAIN bgs : bgs[j].type = "video"}}

CacheHoldsPlaylistVideos == DOMAIN videoElements = VideoSrcs(backgrounds)

\* An element leaves the cache only in a step that takes the last item of
\* its src out of the playlist.
ReleasedWhenUnshared ==
    \A s \in DOMAIN videoElements \ DOMAIN videoElements' :
        /\ \E i \in DOMAIN backgrounds : backgrounds[i].src = s
        /\ ~(\E i \in DOMAIN backgrounds' : backgrounds'[i].src = s)

\* C25: after any uploads, duplications and removals the keys of the video
\* cache are the src values of the playlist's video items; an element is
\* released only when the item removed was the last one with its src.
C25_VideoCacheKeys == []CacheHoldsPlaylistVideos /\ [][ReleasedWhenUnshared]_vars

\* A video was duplicated and the original removed: the copy, alone in the
\* playlist, still has the element.
C25_Witness ==
    /\ Len(backgrounds) = 1
    /\ backgrounds[1].type = "video"
    /\ backgrounds[1].id # backgrounds[1].src
    /\ backgrounds[1].src \in DOMAIN videoElements
    /\ frame.bg.idx = 1

\* ------------------------------------------------- the lyric editor in use
EditedTimes == {-3, 7}
EditorRows == 1..MaxSourceLines

NextEditor ==
    \/ SetLrcLines(SourceLines)
    \/ OpenLyricEditor
    \/ \E t \in TypedTexts : UpdateLineText(1, t)
    \/ \E t \in EditedTimes : UpdateLineTime(2, t)
    \/ HandleTap(1)
    \/ InsertLineAfter(1)
    \/ \E i \in EditorRows : DeleteLine(i)
    \/ CloseEditor
    \/ SaveAndApply

SpecEditor == InitLoaded /\ [][NextEditor]_vars

\* ------------------------------------------- C26: edits wait for the save
\* C26: while the lyric editor is open the application's lrcLines change
\* in no step but Save & Apply; taps, time edits, text edits, insertions
\* and deletions leave them as they were when the editor was opened, and
\* so does closing without saving.
C26_OnlySaveApplies ==
    [][(editor.isOpen /\ lrcLines' # lrcLines) => SaveAndApply]_vars

\* ------------------------------------------------- C27: the playing flag
PlaybackSeekTimes == {0, 15}

\* The editor is a full-screen overlay: the transport and the record
\* button are out of reach while it is open.
OnMainScreen == ~editor.isOpen

NextPlayback ==
    \/ OnMainScreen /\ TogglePlay
    \/ \E t \in PlaybackSeekTimes : OnMainScreen /\ HandleSeek(t)
    \/ OnMainScreen /\ StartRecording
    \/ OnMainScreen /\ StopRecording
    \/ RecorderStopEvents
    \/ AudioEnded
    \/ AnimationFrame(4)
    \/ OpenLyricEditor
    \/ CloseEditor
    \/ EditorTogglePlay

SpecPlayback == InitLoaded /\ [][NextPlayback]_vars

\* C27: after any sequence of togglePlay, seek, start and stop of a
\* recording, opening and closing the lyric editor, play and pause inside
\* it and the audio's ended event, isPlaying is true exactly when the audio
\* element is not paused.
C27_PlayingIffNotPaused == isPlaying <=> ~audio.paused

\* ------------------------------------------------------- project database
\* utils/db.ts keeps projects in IndexedDB: the projects store holds one
\* metadata entry per project id, the assets store one entry per blob. Ids
\* are names, a key is the list of the pieces of its template string.
ProjectNames == <<"p1", "p2", "p3">>
BackgroundNames == <<"a", "b", "c">>
ProjectIds == {ProjectNames[i] : i \in 1..MaxProjects}
SavedBackgroundIds == {BackgroundNames[i] : i \in 1..MaxSavedBackgrounds}

\* `audio_${projectId}` and `bg_${projectId}_${bg.id}`
AudioId(projectId) == <<"audio", "_", projectId>>
BgId(projectId, bgId) == <<"bg", "_", projectId, "_", bgId>>

\* store.get(id): the entry of that id, or nothing (result undefined).
StoreGet(store, id) == {entry \in store : entry.id = id}
\* store.put(entry): the entry replaces the one of the same id.
StorePut(store, entry) == {e \in store : e.id # entry.id} \cup {entry}
\* store.delete(id)
StoreDelete(store, id) == {e \in store : e.id # id}

RECURSIVE PutAll(_, _)
PutAll(store, entries) ==
    IF entries = {} THEN store
    ELSE LET entry == CHOOSE e \in entries : TRUE
         IN  PutAll(StorePut(store, entry), entries \ {entry})

\* The panel that calls the database shows its loading overlay from the
\* call to its end: one call runs at a time.
DbIdle == dbCalls.load.pc \in {"idle", "done"} /\ dbCalls.delete.pc = "idle"

\* The database calls leave the application alone.
DbUnchangedApp ==
    UNCHANGED <<backgrounds, videoElements, lrcLines, lyricStyle,
                titleStyle, titleConfig, currentTime, isPlaying, audio,
                recorder, editor, transition, frame, scene, memo,
                lrcContent>>

\* saveProjectToDB(project, audioBlob, backgroundBlobs): one readwrite
\* transaction puts the metadata, the audio blob when there is one, and
\* every blob that was handed over. Nothing is deleted.
SavedAssets(project, audioBlob, backgroundBlobs) ==
    (IF audioBlob # NoBlob
     THEN {[id |-> AudioId(project.id), blob |-> audioBlob]}
     ELSE {})
    \cup {[id |-> BgId(project.id, bg.id), blob |-> bg.blob] :
             bg \in backgroundBlobs}

SaveProjectToDB(project, audioBlob, backgroundBlobs) ==
    /\ DbIdle
    /\ db' = [projects |-> StorePut(db.projects, project),
              assets |-> PutAll(db.assets,
                            SavedAssets(project, audioBlob, backgroundBlobs))]
    /\ dbCalls' = NoCalls
    /\ DbUnchangedApp

\* A promise settles once: resolve and reject do nothing to a settled one.
Resolve(call, value) ==
    IF call.promise = "pending"
    THEN [call EXCEPT !.promise = "resolved", !.value = value,
                      !.resolveCalls = @ + 1]
    ELSE [call EXCEPT !.resolveCalls = @ + 1]

Reject(call) ==
    IF call.promise = "pending"
    THEN [call EXCEPT !.promise = "rejected"]
    ELSE call

\* A variant of checkDone that resolves while one request is still out.
CheckDoneBeforeLast(call) ==
    IF call.pendingRequests <= 1 /\ ~call.hasError
    THEN Resolve(call, [audioBlob |-> call.audioBlob,
                        backgroundBlobs |-> call.backgroundBlobs])
    ELSE call

\* checkDone
CheckDone(call) ==
    IF call.pendingRequests <= 0 /\ ~call.hasError
    THEN Resolve(call, [audioBlob |-> call.audioBlob,
                        backgroundBlobs |-> call.backgroundBlobs])
    ELSE call

\* backgroundBlobs.set(key, blob) on a Map kept as a set of pairs
MapSet(map, key, blob) == {e \in map : e[1] # key} \cup {<<key, blob>>}

SeqRange(s) == {s[i] : i \in 1..Len(s)}

\* The asset requests of a load: the audio and one per listed background.
AudioRequest == [kind |-> "audio", bg |-> ""]
AssetRequests(projectData) ==
    {AudioRequest}
    \cup {[kind |-> "bg", bg |-> bg] : bg \in SeqRange(projectData.backgrounds)}

RequestKey(projectId, req) ==
    IF req.kind = "audio" THEN AudioId(projectId) ELSE BgId(projectId, req.bg)

\* loadProjectFromDB(projectId) up to its first await: the metadata
\* request is out.
LoadProjectFromDB(projectId) ==
    /\ DbIdle
    /\ dbCalls' = [NoCalls EXCEPT !.load =
                      [NoLoad EXCEPT !.pc = "meta", !.id = projectId]]
    /\ UNCHANGED db
    /\ DbUnchangedApp

\* The metadata request succeeds. Without a result the call rejects and
\* ends; with one, step 2 opens the asset transaction and queues the audio
\* request and one request per listed background, counting each.
QueueAssets(call, projectData) ==
    LET queued == [call EXCEPT
                     !.pc = "assets",
                     !.data = {projectData},
                     !.requests = AssetRequests(projectData),
                     !.pendingRequests = 1 + Len(projectData.backgrounds),
                     !.reads = 1 + Len(projectData.backgrounds)]
    IN  IF queued.pendingRequests = 0 THEN CheckDone(queued) ELSE queued

ProjectRequestSuccess ==
    /\ dbCalls.load.pc = "meta"
    /\ LET call == dbCalls.load
           result == StoreGet(db.projects, call.id)
       IN  dbCalls' = [dbCalls EXCEPT !.load =
               IF result = {}
               THEN [Reject(call) EXCEPT !.pc = "done"]
               ELSE QueueAssets(call, CHOOSE project \in result : TRUE)]
    /\ UNCHANGED db
    /\ DbUnchangedApp

\* The metadata request fails: request.onerror rejects.
ProjectRequestError ==
    /\ dbCalls.load.pc = "meta"
    /\ dbCalls' = [dbCalls EXCEPT !.load =
                      [Reject(dbCalls.load) EXCEPT !.pc = "done",
                                                   !.errored = TRUE]]
    /\ UNCHANGED db
    /\ DbUnchangedApp

\* The call is over when no callback is left to fire.
Completed(call) ==
    IF call.requests = {} THEN [call EXCEPT !.pc = "done"] ELSE call

\* onsuccess of an asset request: the blob is kept when the entry exists
\* and has one, the counter goes down, checkDone runs.
RequestSuccess(req) ==
    /\ dbCalls.load.pc = "assets"
    /\ req \in dbCalls.load.requests
    /\ ~dbCalls.load.aborted
    /\ LET call == dbCalls.load
           result == StoreGet(db.assets, RequestKey(call.id, req))
           found == result # {} /\ (CHOOSE e \in result : TRUE).blob # NoBlob
           blob == (CHOOSE e \in result : TRUE).blob
           kept == IF ~found THEN call
                   ELSE IF req.kind = "audio"
                        THEN [call EXCEPT !.audioBlob = blob]
                        ELSE [call EXCEPT !.backgroundBlobs =
                                              MapSet(@, req.bg, blob)]
           counted == [kept EXCEPT !.requests = @ \ {req},
                                   !.pendingRequests = @ - 1]
       IN  dbCalls' = [dbCalls EXCEPT !.load = Completed(CheckDone(counted))]
    /\ UNCHANGED db
    /\ DbUnchangedApp

\* onerror of an asset request: the counter goes down and checkDone runs;
\* the event then reaches transaction.onerror, which rejects, and the
\* transaction aborts, which fails every request that is still out.
RequestError(req) ==
    /\ dbCalls.load.pc = "assets"
    /\ req \in dbCalls.load.requests
    /\ LET call == dbCalls.load
           counted == [call EXCEPT !.requests = @ \ {req},
                                   !.pendingRequests = @ - 1,
                                   !.errored = TRUE, !.aborted = TRUE]
       IN  dbCalls' = [dbCalls EXCEPT !.load =
                          Completed(Reject(CheckDone(counted)))]
    /\ UNCHANGED db
    /\ DbUnchangedApp

\* deleteProjectFromDB(projectId), step 1: a readonly transaction reads the
\* metadata of the project (undefined when there is none).
DeleteReadsMetadata(projectId) ==
    /\ DbIdle
    /\ dbCalls' = [NoCalls EXCEPT !.delete =
                      [pc |-> "delete", id |-> projectId,
                       projectData |-> StoreGet(db.projects, projectId)]]
    /\ UNCHANGED db
    /\ DbUnchangedApp

\* Step 2: one readwrite transaction deletes the project entry, the audio
\* asset and the asset of every background the metadata lists.
ListedBackgroundKeys(projectId, projectData) ==
    {BgId(projectId, bg) :
        bg \in UNION {SeqRange(project.backgrounds) : project \in projectData}}

RECURSIVE DeleteAll(_, _)
DeleteAll(store, ids) ==
    IF ids = {} THEN store
    ELSE LET id == CHOOSE k \in ids : TRUE
         IN  DeleteAll(StoreDelete(store, id), ids \ {id})

DeleteEverything ==
    /\ dbCalls.delete.pc = "delete"
    /\ LET call == dbCalls.delete
       IN  db' = [projects |-> StoreDelete(db.projects, call.id),
                  assets |-> DeleteAll(StoreDelete(db.assets, AudioId(call.id)),
                                ListedBackgroundKeys(call.id, call.projectData))]
    /\ dbCalls' = NoCalls
    /\ DbUnchangedApp

\* What is saved: a project id with a list of distinct backgrounds, an
\* audio blob or none, and the blobs of some of the listed backgrounds.
BackgroundLists ==
    {s \in UNION {[1..n -> SavedBackgroundIds] : n \in 0..MaxSavedBackgrounds} :
        \A i, j \in 1..Len(s) : i # j => s[i] # s[j]}
SavedProjects == [id : ProjectIds, backgrounds : BackgroundLists]
AudioBlobs == {NoBlob, "audio"}
BlobsOf(project) ==
    SUBSET {[id |-> bg, blob |-> bg] : bg \in SeqRange(project.backgrounds)}

NextDatabase ==
    \/ \E project \in SavedProjects, audioBlob \in AudioBlobs :
          \E backgroundBlobs \in BlobsOf(project) :
             SaveProjectToDB(project, audioBlob, backgroundBlobs)
    \/ \E id \in ProjectIds : LoadProjectFromDB(id)
    \/ ProjectRequestSuccess
    \/ ProjectRequestError
    \/ \E req \in dbCalls.load.requests : RequestSuccess(req)
    \/ \E req \in dbCalls.load.requests : RequestError(req)
    \/ \E id \in ProjectIds : DeleteReadsMetadata(id)
    \/ DeleteEverything

SpecDatabase == InitApp /\ [][NextDatabase]_vars

\* ------------------------------------------------- C28: loading a project
\* What a load of the database's present contents has to return: the audio
\* blob or null, and the blob of every listed background that has one.
FoundBlob(key) ==
    LET result == StoreGet(db.assets, key)
    IN  IF result = {} THEN NoBlob ELSE (CHOOSE e \in result : TRUE).blob

ExpectedLoad(call) ==
    LET project == CHOOSE pr \in call.data : TRUE
    IN  [audioBlob |-> FoundBlob(AudioId(call.id)),
         backgroundBlobs |->
            {<<bg, FoundBlob(BgId(call.id, bg))>> :
                bg \in {b \in SeqRange(project.backgrounds) :
                           FoundBlob(BgId(call.id, b)) # NoBlob}}]

\* C28: a call of loadProjectFromDB calls resolve at most once. When the
\* project exists the promise is resolved only once every asset request has
\* had its callback, whatever the order, and with the audio blob that was
\* found (else null) and exactly the background blobs that were found (a
\* request that failed found nothing); it is rejected only after a request
\* failed, never for a missing asset, and with every request answered and
\* none failed it is resolved. A project id that is not in the store
\* rejects and no asset request is issued.
C28_LoadSettlesOnce ==
    LET call == dbCalls.load
    IN  /\ call.resolveCalls <= 1
        /\ call.promise = "resolved" =>
              /\ call.data # {}
              /\ call.requests = {}
              /\ ~call.errored => call.value = ExpectedLoad(call)
              /\ call.value.backgroundBlobs
                    \subseteq ExpectedLoad(call).backgroundBlobs
        /\ (call.promise = "rejected" /\ call.data # {}) => call.errored
        /\ (call.pc = "done" /\ call.data # {} /\ ~call.errored) =>
              call.promise = "resolved"
        /\ (call.pc = "done" /\ call.data = {}) =>
              (call.promise = "rejected" /\ call.reads = 0)

\* A load of a project with two listed backgrounds resolved with one blob:
\* the other background and the audio have no asset.
C28_Witness ==
    LET call == dbCalls.load
    IN  /\ call.promise = "resolved"
        /\ \E project \in call.data : Len(project.backgrounds) = 2
        /\ Cardinality(call.value.backgroundBlobs) = 1
        /\ call.value.audioBlob = NoBlob

\* ------------------------------------------------ C29: deleting a project
\* The entries that belong to a project: its metadata, and the assets
\* keyed audio_<id> or bg_<id>_ followed by anything.
IsAssetOf(key, projectId) ==
    \/ key = AudioId(projectId)
    \/ /\ Len(key) >= 4
       /\ SubSeq(key, 1, 4) = <<"bg", "_", projectId, "_">>

EntriesOf(database, projectId) ==
    [projects |-> {project \in database.projects : project.id = projectId},
     assets |-> {asset \in database.assets : IsAssetOf(asset.id, projectId)}]

NoEntries == [projects |-> {}, assets |-> {}]

\* C29: when a deleteProjectFromDB(id) completes, after whatever was saved
\* before, the projects store has no entry of that id and the assets store
\* no audio_<id> and no bg_<id>_* entry, and the entries of every other
\* project are what they were.
C29_DeleteLeavesNothing ==
    [][DeleteEverything =>
          /\ EntriesOf(db', dbCalls.delete.id) = NoEntries
          /\ \A other \in ProjectIds \ {dbCalls.delete.id} :
                EntriesOf(db', other) = EntriesOf(db, other)]_vars

\* ------------------------------------------------ C30: one text layer
\* A title sequence of 3 s, switched on or off, with no field, the title
\* alone, or every field filled in.
LayerConfigs ==
    {cfg \in TitleConfigs :
        /\ cfg.layoutMode = "centered"
        /\ cfg.duration = 30
        /\ cfg.subtitle = <<>> => cfg.artist = <<>>}

\* No lyrics, one line that starts at 2 s (the intro placeholder comes
\* before it), or lines at 0 s and 4 s.
LayerLineLists ==
    {<<>>,
     <<[time |-> 20, text |-> LineText(1)]>>,
     <<[time |-> 0, text |-> LineText(1)], [time |-> 40, text |-> LineText(2)]>>}

\* Inside the title sequence, at its end, and after it.
LayerSeekTimes == {0, 5, 10, 20, 29, 30, 31, 40, 45}

NextLayers ==
    \/ \E cfg \in LayerConfigs : SaveTitleConfig(cfg)
    \/ \E lines \in LayerLineLists : SetLrcLines(lines)
    \/ \E t \in LayerSeekTimes : HandleSeek(t)

SpecLayers == InitLoaded /\ [][NextLayers]_vars

\* The texts a lyric layer can put on the canvas, and those of a title.
LyricTexts == {lrcLines[i].text : i \in DOMAIN lrcLines} \cup {Ellipsis}
TitleTexts ==
    {TitleElements(titleConfig)[i].text : i \in DOMAIN TitleElements(titleConfig)}
DrawnTexts == {frame.draws[i].text : i \in DOMAIN frame.draws}

\* C30: a frame has one text layer at most. While the title sequence is
\* active (enabled and currentTime < duration), also with every title field
\* empty, no lyric line and no intro placeholder is drawn, no lyric line is
\* taken as active, and the overlay has the title style's opacity.
\* Otherwise the frame has no title element and no title text, and the
\* overlay has the lyric style's opacity.
C30_OneTextLayer ==
    LET active == titleConfig.enabled /\ currentTime < titleConfig.duration
    IN  /\ active =>
              /\ frame.stage = "title"
              /\ frame.activeIndex = 0
              /\ DrawnTexts \cap LyricTexts = {}
              /\ Len(frame.draws) <= Len(frame.elements)
              /\ frame.overlay = titleStyle.bgOverlayOpacity
        /\ ~active =>
              /\ frame.stage # "title"
              /\ frame.elements = <<>>
              /\ DrawnTexts \cap TitleTexts = {}
              /\ frame.overlay = lyricStyle.bgOverlayOpacity

\* A title sequence without any text is active at a time when a lyric line
\* would be: the frame has the title's overlay and no text at all.
C30_Witness ==
    /\ titleConfig.enabled
    /\ currentTime < titleConfig.duration
    /\ TitleElements(titleConfig) = <<>>
    /\ lrcLines # <<>>
    /\ ActiveIndex(lrcLines, currentTime) # 0
    /\ frame.draws = <<>>
    /\ frame.overlay = titleStyle.bgOverlayOpacity
    /\ titleStyle.bgOverlayOpacity # lyricStyle.bgOverlayOpacity

====
